---- MODULE Spec2Model ----
(***************************************************************************)
(* Optrand-PVSS ("modified SCRAPE"): share issuance, share verification    *)
(* and homomorphic aggregation, as implemented in src/src/modified_scrape. *)
(*                                                                         *)
(* Algebra.  G1, G2 and GT are cyclic groups of the same prime order as    *)
(* the scalar field F.  A group element is represented by its discrete     *)
(* logarithm to a fixed base point of its group, so that                   *)
(*   point addition        is addition modulo P,                          *)
(*   scalar multiplication is multiplication modulo P,                    *)
(*   the identity          is 0,                                          *)
(*   the pairing e(a, b)   is a * b modulo P.                              *)
(* P is a prime standing for the order of the BLS12-381 scalar field       *)
(* (about 2^255).  It is larger than every number of evaluation points the *)
(* repository uses (its tests go up to 103), so that Scalar::from(i) and   *)
(* Scalar::from(j) differ for i # j, as they do in the program.  The       *)
(* scalars the random generators and the senders draw come from the small  *)
(* range Scalars of the field.                                             *)
(***************************************************************************)
EXTENDS Integers, Sequences, FiniteSets, TLC

VARIABLES config,        \* Config { srs, degree, num_participants }
          participants,  \* BTreeMap<usize, Participant>, the same on every node
          dealers,       \* id -> Dealer secrets (sk of the encryption key, EdDSA key)
          issued,        \* PVSSShare values returned by Node::share so far
          aggs,          \* aggregated transcripts sent to the peers so far
          tx,            \* node id -> aggregator.aggregated_tx (node.rs:62)
          transcript,    \* node id -> aggregator.transcript (aggregator.rs:36)
          last,          \* the latest receive_* call: receiver, input, result
          calls,         \* number of receive_* calls made so far
          delivered      \* four-party run: the calls of the script already made

vars == <<config, participants, dealers, issued, aggs, tx, transcript, last,
          calls, delivered>>

(***************************************************************************)
(* Bounds of the model.                                                    *)
(***************************************************************************)
Primes == <<127, 131, 137, 139>>
FieldIdx == 1                  \* index into Primes of the field order
MaxScalar == 4                 \* largest scalar drawn at random in a run
MaxIssued == 2                 \* shares issued in one run
MaxAggs == 1                   \* aggregated transcripts sent in one run
MaxCalls == 3                  \* receive_* calls in one run
MaxReceivers == 2              \* nodes whose aggregators receive in one run

P == Primes[FieldIdx]
F == 0 .. (P - 1)
Scalars == 0 .. MaxScalar

(***************************************************************************)
(* Scalar field F and the groups.                                          *)
(***************************************************************************)
FAdd(a, b) == (a + b) % P
FSub(a, b) == (a + P - b) % P
FMul(a, b) == (a * b) % P
\* Field::inverse: None on zero, else the multiplicative inverse.
None == "None"
RECURSIVE FPow(_, _)
FPow(a, e) ==
    IF e = 0 THEN 1
    ELSE LET h == FPow(a, e \div 2)
         IN IF e % 2 = 0 THEN (h * h) % P ELSE (((h * h) % P) * a) % P
FInverse(a) == IF a % P = 0 THEN None ELSE FPow(a % P, P - 2)
\* Scalar::from(i as u64)
ScalarFrom(i) == i % P

GZero == 0
GAdd(a, b) == (a + b) % P
GNeg(a) == (P - a) % P
GMul(a, s) == (a * s) % P
Pairing(a, b) == (a * b) % P

\* The sum and the product of f[lo], ..., f[hi], taken by halves.
RECURSIVE SumRange(_, _, _)
SumRange(f, lo, hi) ==
    IF lo > hi THEN 0
    ELSE IF lo = hi THEN f[lo] % P
    ELSE LET mid == (lo + hi) \div 2
         IN GAdd(SumRange(f, lo, mid), SumRange(f, mid + 1, hi))
SeqSum(f, k) == SumRange(f, 1, k)

RECURSIVE ProdRange(_, _, _)
ProdRange(f, lo, hi) ==
    IF lo > hi THEN 1
    ELSE IF lo = hi THEN f[lo] % P
    ELSE LET mid == (lo + hi) \div 2
         IN FMul(ProdRange(f, lo, mid), ProdRange(f, mid + 1, hi))
SeqProd(f, k) == ProdRange(f, 1, k)

\* DensePolynomial::evaluate: the sum of coeffs[k] * x^(k - 1); coeffs[1] is
\* the free term.
PolyEvaluate(coeffs, x) ==
    SeqSum([k \in 1 .. Len(coeffs) |-> FMul(coeffs[k], FPow(x % P, k - 1))],
           Len(coeffs))

Ok(v) == [tag |-> "Ok", val |-> v]
Err(e) == [tag |-> "Err", err |-> e]
\* an error variant with fields, such as TranscriptDifferentConfig(t1, t2, n1, n2)
ErrWith(e, args) == [tag |-> "Err", err |-> e, args |-> args]
Abort == [tag |-> "Abort"]
IsOk(r) == r.tag = "Ok"

(***************************************************************************)
(* poly.rs                                                                 *)
(***************************************************************************)
\* Both checks below invert differences of the evaluation points 1..num;
\* inverse().unwrap() panics when two of them coincide in F.
PointsCollide(num) ==
    \E i, j \in 1 .. num : i # j /\ ScalarFrom(i) = ScalarFrom(j)

\* cperp with the differences multiplied in without being inverted.
CPerp_not_inverted(f, i, num) ==
    FMul(PolyEvaluate(f, ScalarFrom(i)),
         SeqProd([j \in 1 .. num |->
                    IF j = i THEN 1
                    ELSE FSub(ScalarFrom(i), ScalarFrom(j))], num))

\* cperp of poly.rs:44-50: f(i) * prod_{j # i} (i - j)^{-1}
CPerp(f, i, num) ==
    FMul(PolyEvaluate(f, ScalarFrom(i)),
         SeqProd([j \in 1 .. num |->
                    IF j = i THEN 1
                    ELSE FInverse(FSub(ScalarFrom(i), ScalarFrom(j)))], num))

\* ensure_degree with a constant polynomial sampled whatever the lengths.
ensure_degree_constant_poly(rng, evaluations, degree) ==
    LET num == Len(evaluations) IN
    IF num < degree THEN Err("InsufficientEvaluationsError")
    ELSE IF num - degree - 2 < 0 THEN Abort
    ELSE IF PointsCollide(num) THEN Abort
    ELSE LET poly == SubSeq(rng, 1, 1)
             sum == SeqSum([i \in 1 .. num |->
                              GMul(evaluations[i], CPerp(poly, i, num))], num)
         IN IF sum # GZero THEN Err("DualCodeError") ELSE Ok("unit")

\* ensure_degree(rng, evaluations, degree).  rng is the stream of scalars
\* the generator yields; Polynomial::rand(d, rng) takes its first d + 1.
\* num - degree - 2 is a u64 subtraction: below zero it panics (overflow
\* checks on) or wraps to a degree near 2^64 whose coefficients can never
\* be sampled; in both builds the call does not return.
ensure_degree(rng, evaluations, degree) ==
    LET num == Len(evaluations) IN
    IF num < degree THEN Err("InsufficientEvaluationsError")
    ELSE IF num - degree - 2 < 0 THEN Abort
    ELSE IF PointsCollide(num) THEN Abort
    ELSE LET poly == SubSeq(rng, 1, (num - degree - 2) + 1)
             sum == SeqSum([i \in 1 .. num |->
                              GMul(evaluations[i], CPerp(poly, i, num))], num)
         IN IF sum # GZero THEN Err("DualCodeError") ELSE Ok("unit")

\* The coefficient with x_j in the numerator in place of x_k.
SimpleCoeff_own_point(j, degree) ==
    SeqProd([k \in 1 .. (degree + 1) |->
               IF k = j THEN 1
               ELSE FMul(ScalarFrom(j),
                         FInverse(FSub(ScalarFrom(k), ScalarFrom(j))))],
            degree + 1)

\* The Lagrange coefficient at 0 of point j among the points 1..degree+1.
SimpleCoeff(j, degree) ==
    SeqProd([k \in 1 .. (degree + 1) |->
               IF k = j THEN 1
               ELSE FMul(ScalarFrom(k),
                         FInverse(FSub(ScalarFrom(k), ScalarFrom(j))))],
            degree + 1)

\* lagrange_interpolation_simple(evals, degree): points are 1..=degree+1.
lagrange_interpolation_simple(evals, degree) ==
    IF Len(evals) < degree + 1 THEN Err("InsufficientEvaluationsError")
    ELSE IF PointsCollide(degree + 1) THEN Abort
    ELSE Ok(SeqSum([j \in 1 .. (degree + 1) |->
                      GMul(evals[j], SimpleCoeff(j, degree))], degree + 1))

\* Two of the first degree + 1 points coincide: (x_k - x_j).inverse() is None
\* and its unwrap() panics.
FirstPointsCollide(points, degree) ==
    \E j, k \in 1 .. (degree + 1) : j # k /\ points[j] = points[k]

\* prod of poly.rs:118-124: prod_{k # j} x_k * (x_k - x_j)^{-1} over the first
\* degree + 1 points.
GeneralCoeff(points, j, degree) ==
    SeqProd([k \in 1 .. (degree + 1) |->
               IF k = j THEN 1
               ELSE FMul(points[k], FInverse(FSub(points[k], points[j])))],
            degree + 1)

\* The interpolation at 0 with the swapped quotient x_j * (x_k - x_j)^{-1}.
lagrange_interpolation_g1_swapped(evals, points, degree) ==
    IF Len(evals) < degree + 1 THEN Err("InsufficientEvaluationsError")
    ELSE IF Len(evals) # Len(points) THEN Err("DifferentPointsEvalsError")
    ELSE IF FirstPointsCollide(points, degree) THEN Abort
    ELSE Ok(SeqSum([j \in 1 .. (degree + 1) |->
                      GMul(evals[j],
                           SeqProd([k \in 1 .. (degree + 1) |->
                                      IF k = j THEN 1
                                      ELSE FMul(points[j],
                                                FInverse(FSub(points[k], points[j])))],
                                   degree + 1))],
                   degree + 1))

\* lagrange_interpolation_g1(evals, points, degree): only the first
\* degree + 1 entries of evals and points are read.
lagrange_interpolation_g1(evals, points, degree) ==
    IF Len(evals) < degree + 1 THEN Err("InsufficientEvaluationsError")
    ELSE IF Len(evals) # Len(points) THEN Err("DifferentPointsEvalsError")
    ELSE IF FirstPointsCollide(points, degree) THEN Abort
    ELSE Ok(SeqSum([j \in 1 .. (degree + 1) |->
                      GMul(evals[j], GeneralCoeff(points, j, degree))],
                   degree + 1))

\* The interpolation in G2 with the two lengths compared before the number
\* of evaluations is looked at.
lagrange_interpolation_g2_lengths_first(evals, points, degree) ==
    IF Len(evals) # Len(points) THEN Err("DifferentPointsEvalsError")
    ELSE IF Len(evals) < degree + 1 THEN Err("InsufficientEvaluationsError")
    ELSE IF FirstPointsCollide(points, degree) THEN Abort
    ELSE Ok(SeqSum([j \in 1 .. (degree + 1) |->
                      GMul(evals[j], GeneralCoeff(points, j, degree))],
                   degree + 1))

\* lagrange_interpolation_g2(evals, points, degree): the same over G2.
lagrange_interpolation_g2(evals, points, degree) ==
    IF Len(evals) < degree + 1 THEN Err("InsufficientEvaluationsError")
    ELSE IF Len(evals) # Len(points) THEN Err("DifferentPointsEvalsError")
    ELSE IF FirstPointsCollide(points, degree) THEN Abort
    ELSE Ok(SeqSum([j \in 1 .. (degree + 1) |->
                      GMul(evals[j], GeneralCoeff(points, j, degree))],
                   degree + 1))

\* The interpolation in GT with the points 1..=degree+1 taken by position.
lagrange_interpolation_gt_by_position(evals, points, degree) ==
    LET xs == [k \in 1 .. Len(points) |-> ScalarFrom(k)] IN
    IF Len(evals) < degree + 1 THEN Err("InsufficientEvaluationsError")
    ELSE IF Len(evals) # Len(points) THEN Err("DifferentPointsEvalsError")
    ELSE IF FirstPointsCollide(xs, degree) THEN Abort
    ELSE Ok(SeqSum([j \in 1 .. (degree + 1) |->
                      GMul(evals[j], GeneralCoeff(xs, j, degree))],
                   degree + 1))

\* lagrange_interpolation_gt(evals, points, degree): points are u64 values
\* turned into scalars; GT is written multiplicatively in the code, so the
\* product of evals[j].pow(prod) is the sum of the logarithms times prod.
lagrange_interpolation_gt(evals, points, degree) ==
    LET xs == [k \in 1 .. Len(points) |-> ScalarFrom(points[k])] IN
    IF Len(evals) < degree + 1 THEN Err("InsufficientEvaluationsError")
    ELSE IF Len(evals) # Len(points) THEN Err("DifferentPointsEvalsError")
    ELSE IF FirstPointsCollide(xs, degree) THEN Abort
    ELSE Ok(SeqSum([j \in 1 .. (degree + 1) |->
                      GMul(evals[j], GeneralCoeff(xs, j, degree))],
                   degree + 1))

\* DecryptedShare::generate(enc, sk, my_id): enc[my_id] * sk^{-1}.  my_id is
\* 0-based; an index past the end and a zero key both panic.
DecryptedShare_generate(enc, sk, my_id) ==
    IF my_id + 1 > Len(enc) \/ sk % P = 0 THEN Abort
    ELSE Ok([dec |-> GMul(enc[my_id + 1], FInverse(sk)), origin |-> my_id])

(***************************************************************************)
(* nizk/dlk and modified_scrape/decomp.rs                                  *)
(***************************************************************************)
\* hash_to_field(persona, bytes): a fixed function of the persona and of
\* the serialized elements whose range is the whole field, 0 included.
PersonaTag(persona) ==
    CASE persona = "DLKNIZK"  -> 2
      [] persona = "DLEQNIZK" -> 3
      [] persona = "SCHSIGNA" -> 4
RECURSIVE Mix(_, _)
Mix(bytes, k) ==
    IF k = 0 THEN 0 ELSE (Mix(bytes, k - 1) * 81 + bytes[k] + k) % (P - 1)
hash_to_field(persona, bytes) ==
    (PersonaTag(persona) + Mix(bytes, Len(bytes))) % P

\* The bytes prove and verify hash into the challenge: [g_bytes, g_r_bytes]
\* concatenated, the serialized generator and nonce commitment.
ChallengeBytes(g, g_r) == <<g, g_r>>

\* prove with the response r + w * c in place of r - w * c.
DLKProof_prove_response_added(g, r, w) ==
    LET g_r == GMul(g, r)
        hashed_message == hash_to_field("DLKNIZK", <<g, g_r>>)
        z == FAdd(r, FMul(w, hashed_message))
    IN <<g_r, hashed_message, z>>

\* DLKProof::prove with nonce r: the challenge hashes g and R only.
DLKProof_prove(g, r, w) ==
    LET g_r == GMul(g, r)
        hashed_message == hash_to_field("DLKNIZK", ChallengeBytes(g, g_r))
        z == FSub(r, FMul(w, hashed_message))
    IN <<g_r, hashed_message, z>>

\* verify with the verification equation alone, the challenge not compared.
DLKProof_verify_equation_only(g, stmnt, proof) ==
    LET hashed_message == hash_to_field("DLKNIZK", <<g, proof[1]>>)
        check == GAdd(GMul(g, proof[3]), GMul(stmnt, hashed_message))
    IN IF check # proof[1] THEN Err("DLKVerify") ELSE Ok("unit")

\* DLKProof::verify
DLKProof_verify(g, stmnt, proof) ==
    LET hashed_message == hash_to_field("DLKNIZK", ChallengeBytes(g, proof[1]))
        check == GAdd(GMul(g, proof[3]), GMul(stmnt, hashed_message))
    IN IF check # proof[1] \/ hashed_message # proof[2]
       THEN Err("DLKVerify") ELSE Ok("unit")

(***************************************************************************)
(* nizk/dleq                                                               *)
(***************************************************************************)
\* DLEQProof::prove with nonce r over the generators g and h: the challenge
\* hashes g, g*w, h, h*w, g*r, h*r.
DLEQProof_prove(g, h, r, w) ==
    LET g_w == GMul(g, w)
        h_w == GMul(h, w)
        g_r == GMul(g, r)
        h_r == GMul(h, r)
        hashed_message == hash_to_field("DLEQNIZK", <<g, g_w, h, h_w, g_r, h_r>>)
        z == FSub(r, FMul(w, hashed_message))
    IN << <<g_r, h_r>>, hashed_message, z>>

\* verify with the equation over g alone.
DLEQProof_verify_first_equation_only(g, h, statement, proof) ==
    LET g_r == proof[1][1]
        h_r == proof[1][2]
        hashed_message == hash_to_field("DLEQNIZK",
                             <<g, statement[1], h, statement[2], g_r, h_r>>)
        lhs1 == GAdd(GMul(g, proof[3]), GMul(statement[1], hashed_message))
    IN IF lhs1 # g_r \/ hashed_message # proof[2]
       THEN Err("DLEQVerify") ELSE Ok("unit")

\* DLEQProof::verify
DLEQProof_verify(g, h, statement, proof) ==
    LET g_r == proof[1][1]
        h_r == proof[1][2]
        hashed_message == hash_to_field("DLEQNIZK",
                             <<g, statement[1], h, statement[2], g_r, h_r>>)
        lhs1 == GAdd(GMul(g, proof[3]), GMul(statement[1], hashed_message))
        lhs2 == GAdd(GMul(h, proof[3]), GMul(statement[2], hashed_message))
    IN IF lhs1 # g_r \/ lhs2 # h_r \/ hashed_message # proof[2]
       THEN Err("DLEQVerify") ELSE Ok("unit")

\* Decomp::generate(rng, config, p_0), rng yielding the nonce r.
Decomp_generate(r, conf, p_0) ==
    [proof |-> DLKProof_prove(conf.srs.g2, r, p_0), gs |-> GMul(conf.srs.g2, p_0)]

\* DecompProof::verify(config)
DecompProof_verify(dproof, conf) ==
    IF ~IsOk(DLKProof_verify(conf.srs.g2, dproof.gs, dproof.proof))
    THEN Err("NIZKProofDoesNotVerifyError") ELSE Ok("unit")

\* DecompProof::digest: SHAKE256 over proof bytes || gs bytes, taken as
\* collision free.
DecompProof_digest(dproof) == <<dproof.proof, dproof.gs>>

(***************************************************************************)
(* lib.rs: EdDSA.  A signature names the digest it was made on and the     *)
(* key pair that made it (an unforgeable signature).                       *)
(***************************************************************************)
EdPublicKey(secret) == [vk |-> secret]
Signature_new(digest, secret) == [msg |-> digest, by |-> secret]
Signature_verify(sig, digest, public_key) ==
    IF sig.msg = digest /\ public_key = EdPublicKey(sig.by)
    THEN Ok("unit") ELSE Err("CryptoError")

(***************************************************************************)
(* signature/schnorr: the scheme behind private_key_sig / public_key_sig.  *)
(* The SRS of SCHSRS::setup holds the prime subgroup generator, the base   *)
(* point of G1 (discrete logarithm 1).                                     *)
(***************************************************************************)
SCHSRS_setup == [g_public_key |-> 1]

\* SchnorrSignature::sign, rng yielding the nonce v: the signature is
\* (g * v, v - sk * c) with c the hash of message, g and g * v.
SchnorrSignature_sign(srs, v, sk, message) ==
    LET v_g == GMul(srs.g_public_key, v)
        hashed_message == hash_to_field("SCHSIGNA",
                                        message \o <<srs.g_public_key, v_g>>)
        r == FSub(v, FMul(sk, hashed_message))
    IN <<v_g, r>>

\* SchnorrSignature::verify
SchnorrSignature_verify(srs, pk, message, signature) ==
    LET hashed_message == hash_to_field("SCHSIGNA",
                                        message \o <<srs.g_public_key, signature[1]>>)
        check == GAdd(GMul(srs.g_public_key, signature[2]),
                      GMul(pk, hashed_message))
    IN IF check # signature[1] THEN Err("SchnorrVerify") ELSE Ok("unit")

(***************************************************************************)
(* pvss.rs (PVSSCore) is not among the sources; empty and aggregate follow *)
(* their uses in share.rs and its tests.                                   *)
(***************************************************************************)
PVSSCore_empty(n) == [comms |-> [j \in 1 .. n |-> GZero],
                      encs  |-> [j \in 1 .. n |-> GZero]]

PVSSCore_aggregate(a, b) ==
    IF Len(a.comms) # Len(b.comms)
    THEN Err("MismatchedCommitmentsError")
    ELSE IF Len(a.encs) # Len(b.encs)
    THEN Err("MismatchedEncryptionsError")
    ELSE Ok([comms |-> [j \in 1 .. Len(a.comms) |-> GAdd(a.comms[j], b.comms[j])],
             encs  |-> [j \in 1 .. Len(a.encs)  |-> GAdd(a.encs[j],  b.encs[j])]])

(***************************************************************************)
(* share.rs: PVSSAggregatedShare                                           *)
(***************************************************************************)
\* PVSSAggregatedShare::empty(degree, num_participants)
empty(degree, num_participants) ==
    [num_participants |-> num_participants,
     degree           |-> degree,
     pvss_core        |-> PVSSCore_empty(num_participants),
     contributions    |-> << >>]

Ids(agg) == DOMAIN agg.contributions

\* The map step without the comparison of the two gs: self's entry is kept.
MergeEntry_unchecked(self, other, i) ==
    IF i \in Ids(self) THEN Ok(self.contributions[i])
    ELSE IF i \in Ids(other) THEN Ok(other.contributions[i])
    ELSE Ok(None)

\* The map step with the whole signed proofs compared in place of the gs.
MergeEntry_compares_proofs(self, other, i) ==
    IF i \in Ids(self) /\ i \in Ids(other)
    THEN IF self.contributions[i] # other.contributions[i]
         THEN Err("TranscriptDifferentCommitments")
         ELSE Ok(self.contributions[i])
    ELSE IF i \in Ids(self) THEN Ok(self.contributions[i])
    ELSE IF i \in Ids(other) THEN Ok(other.contributions[i])
    ELSE Ok(None)

\* The map step of aggregate (share.rs:110-128) for one id i.
MergeEntry(self, other, i) ==
    IF i \in Ids(self) /\ i \in Ids(other)
    THEN IF self.contributions[i].decomp_proof.gs
              # other.contributions[i].decomp_proof.gs
         THEN Err("TranscriptDifferentCommitments")
         ELSE Ok(self.contributions[i])
    ELSE IF i \in Ids(self) THEN Ok(self.contributions[i])
    ELSE IF i \in Ids(other) THEN Ok(other.contributions[i])
    ELSE Ok(None)

\* aggregate with the core of self carried over instead of the sum.
aggregate_core_of_self(self, other) ==
    IF self.degree # other.degree
       \/ self.num_participants # other.num_participants
    THEN Err("TranscriptDifferentConfig")
    ELSE LET range == 0 .. (self.num_participants - 1)
             kept == {i \in range : i \in Ids(self) \/ i \in Ids(other)}
         IN IF \E i \in range : ~IsOk(MergeEntry(self, other, i))
            THEN Err("TranscriptDifferentCommitments")
            ELSE Ok([num_participants |-> self.num_participants,
                     degree           |-> self.degree,
                     pvss_core        |-> self.pvss_core,
                     contributions    |->
                        [i \in kept |-> MergeEntry(self, other, i).val]])

\* aggregate with other.pvss_core.aggregate(&other.pvss_core) for the core.
aggregate_core_of_other_twice(self, other) ==
    IF self.degree # other.degree
       \/ self.num_participants # other.num_participants
    THEN Err("TranscriptDifferentConfig")
    ELSE LET range == 0 .. (self.num_participants - 1)
             kept == {i \in range : i \in Ids(self) \/ i \in Ids(other)}
             core == PVSSCore_aggregate(other.pvss_core, other.pvss_core)
         IN IF \E i \in range : ~IsOk(MergeEntry(self, other, i))
            THEN Err("TranscriptDifferentCommitments")
            ELSE IF ~IsOk(core) THEN Abort
            ELSE Ok([num_participants |-> self.num_participants,
                     degree           |-> self.degree,
                     pvss_core        |-> core.val,
                     contributions    |->
                        [i \in kept |-> MergeEntry(self, other, i).val]])

\* aggregate with the merge of the contributions checked before the
\* configurations are compared.
aggregate_commitments_first(self, other) ==
    LET range == 0 .. (self.num_participants - 1)
        kept == {i \in range : i \in Ids(self) \/ i \in Ids(other)}
        core == PVSSCore_aggregate(self.pvss_core, other.pvss_core)
    IN IF \E i \in range : ~IsOk(MergeEntry(self, other, i))
       THEN Err("TranscriptDifferentCommitments")
       ELSE IF self.degree # other.degree
               \/ self.num_participants # other.num_participants
       THEN ErrWith("TranscriptDifferentConfig",
                    <<self.degree, other.degree,
                      self.num_participants, other.num_participants>>)
       ELSE IF ~IsOk(core) THEN Abort
       ELSE Ok([num_participants |-> self.num_participants,
                degree           |-> self.degree,
                pvss_core        |-> core.val,
                contributions    |->
                   [i \in kept |-> MergeEntry(self, other, i).val]])

\* PVSSAggregatedShare::aggregate(&self, other)
aggregate(self, other) ==
    IF self.degree # other.degree
       \/ self.num_participants # other.num_participants
    THEN ErrWith("TranscriptDifferentConfig",
                 <<self.degree, other.degree,
                   self.num_participants, other.num_participants>>)
    ELSE LET range == 0 .. (self.num_participants - 1)
             kept == {i \in range : i \in Ids(self) \/ i \in Ids(other)}
             core == PVSSCore_aggregate(self.pvss_core, other.pvss_core)
         IN IF \E i \in range : ~IsOk(MergeEntry(self, other, i))
            THEN Err("TranscriptDifferentCommitments")
            ELSE IF ~IsOk(core) THEN Abort   \* .unwrap() of the core aggregate
            ELSE Ok([num_participants |-> self.num_participants,
                     degree           |-> self.degree,
                     pvss_core        |-> core.val,
                     contributions    |->
                        [i \in kept |-> MergeEntry(self, other, i).val]])

\* aggregate_pvss_share returning self as it is, the share left out.
aggregate_pvss_share_keeps_self(self, other) == Ok(self)

\* PVSSAggregatedShare::aggregate_pvss_share(&self, other: &PVSSShare)
aggregate_pvss_share(self, other) ==
    aggregate(self,
              [num_participants |-> self.num_participants,
               degree           |-> self.degree,
               pvss_core        |-> other.pvss_core,
               contributions    |->
                  [i \in {other.participant_id} |-> other.signed_proof]])

(***************************************************************************)
(* node.rs: share issuance                                                 *)
(***************************************************************************)
\* Node::share_pvss with the sampled polynomial poly (poly[1] = p_0).
\* evals[j] = poly(j) for j in 1..=n; comms and encs are indexed 0..n-1 in
\* the code and 1..n here.
share_pvss(conf, parts, dealer, poly) ==
    LET n == conf.num_participants
        evals == [j \in 1 .. n |-> PolyEvaluate(poly, ScalarFrom(j))]
        missing == {j \in 0 .. (n - 1) : j \notin DOMAIN parts}
    IN IF missing # {}
       THEN ErrWith("InvalidParticipantId",
                    <<CHOOSE j \in missing : \A k \in missing : j <= k>>)
       ELSE IF dealer.participant.id >= n THEN Abort   \* evals[id] out of range
       ELSE IF \A k \in 1 .. Len(poly) : poly[k] = 0
       THEN Abort   \* poly.coeffs[0] of the zero polynomial, which has no coefficients
       ELSE Ok([pvss_core |->
                  [comms |-> [j \in 1 .. n |-> GMul(conf.srs.g2, evals[j])],
                   encs  |-> [j \in 1 .. n |->
                                GMul(parts[j - 1].public_key_sig, evals[j])]],
                p_0 |-> poly[1],
                my_secret |-> GMul(conf.srs.g1,
                                   evals[dealer.participant.id + 1])])

\* Node::share with the sampled polynomial and the proof nonce r.
share(conf, parts, dealer, poly, r) ==
    LET core == share_pvss(conf, parts, dealer, poly) IN
    IF ~IsOk(core) THEN core
    ELSE LET decomp_proof == Decomp_generate(r, conf, core.val.p_0)
             digest == DecompProof_digest(decomp_proof)
         IN Ok([participant_id |-> dealer.participant.id,
                pvss_core      |-> core.val.pvss_core,
                signed_proof   |->
                   [decomp_proof |-> decomp_proof,
                    signature_on_decomp |->
                       Signature_new(digest, dealer.private_key_ed)]])

\* SecretKey::to_base64 (the Debug form of a SecretKey): the key as a most
\* significant and a least significant base-64 digit.
SecretKey_to_base64(key) == <<key \div 64, key % 64>>

\* What Node::share writes to standard output: nothing when share_pvss
\* fails, else the lines of its println! calls, each as <<text, party,
\* value printed>>.
share_stdout(conf, parts, dealer, poly, r) ==
    LET core == share_pvss(conf, parts, dealer, poly)
        id == dealer.participant.id
    IN IF ~IsOk(core) THEN << >>
       ELSE << <<"now signing NIZK proof", id, "">>,
               <<"NIZK proof's digest is", id,
                 DecompProof_digest(Decomp_generate(r, conf, core.val.p_0))>>,
               <<"EdDSA signing key is", id,
                 SecretKey_to_base64(dealer.private_key_ed)>>,
               <<"EdDSA matching verification key is", id,
                 dealer.participant.public_key_ed>> >>

(***************************************************************************)
(* aggregator.rs: verification of one share                                *)
(***************************************************************************)
\* pvss_share_verify without the comparison of gs with the interpolation.
pvss_share_verify_no_gs_check(conf, rng, sh) ==
    LET core == sh.pvss_core
        deg == ensure_degree(rng, core.comms, conf.degree)
    IN IF Len(core.encs) # conf.num_participants
          \/ Len(core.comms) # conf.num_participants
       THEN ErrWith("MismatchedCommitsEncryptionsReplicasError",
                    <<Len(core.encs), Len(core.comms), conf.num_participants>>)
       ELSE IF deg.tag = "Abort" THEN Abort
       ELSE IF ~IsOk(deg) THEN Err("DualCodeError")
       ELSE Ok("unit")

\* PVSSAggregator::pvss_share_verify as the draft of aggregator.rs has it:
\* sizes, dual code, gs.  A failed ensure_degree is reported as
\* DualCodeError.  The verification of the decomposition proof is announced
\* (aggregator.rs:174-177) and not written: after the gs comparison the
\* function returns Ok(()) whatever the proof.
pvss_share_verify(conf, rng, sh) ==
    LET core == sh.pvss_core
        deg == ensure_degree(rng, core.comms, conf.degree)
        point == lagrange_interpolation_simple(core.comms, conf.degree)
    IN IF Len(core.encs) # conf.num_participants
          \/ Len(core.comms) # conf.num_participants
       THEN ErrWith("MismatchedCommitsEncryptionsReplicasError",
                    <<Len(core.encs), Len(core.comms), conf.num_participants>>)
       ELSE IF deg.tag = "Abort" THEN Abort
       ELSE IF ~IsOk(deg) THEN Err("DualCodeError")
       ELSE IF point # Ok(sh.signed_proof.decomp_proof.gs)
       THEN Err("GSCheckError")
       ELSE Ok("unit")

\* message_from_c_i(c_i): the bytes of c_i that the issuer signs.  The
\* function is imported from dkg::share and is not among the sources; it is
\* taken to serialize its argument as message_from_pi_i of share.rs does.
message_from_c_i(c_i) == Ok(<<c_i>>)

\* The signature step of share_verify (aggregator.rs:308-313): scheme_sig
\* verifies signature_on_c_i on message_from_c_i(c_i) under the
\* public_key_sig of the participant looked up.  Both calls end in `?`: a
\* message that cannot be built and a signature that does not verify are
\* errors of share_verify.  scheme_sig is the Schnorr scheme over
\* SCHSRS::setup that Node::new is given (node.rs:213-226).
share_signature_verify(participant, sh) ==
    LET message == message_from_c_i(sh.c_i)
    IN IF ~IsOk(message) THEN Err("SerializationError")
       ELSE IF ~IsOk(SchnorrSignature_verify(SCHSRS_setup,
                                             participant.public_key_sig,
                                             message.val, sh.signature_on_c_i))
       THEN ErrWith("SignatureError", <<"SchnorrVerify">>)
       ELSE Ok("unit")

\* share_verify looking the issuer up after the share has been verified.
share_verify_lookup_last(conf, parts, rng, sh) ==
    LET inner == pvss_share_verify(conf, rng, sh)
    IN IF ~IsOk(inner) THEN inner
       ELSE IF sh.participant_id \notin DOMAIN parts
       THEN ErrWith("InvalidParticipantId", <<sh.participant_id>>)
       ELSE share_signature_verify(parts[sh.participant_id], sh)

\* PVSSAggregator::share_verify: the issuer lookup, pvss_share_verify, the
\* issuer's signature on c_i.
share_verify(conf, parts, rng, sh) ==
    IF sh.participant_id \notin DOMAIN parts
    THEN ErrWith("InvalidParticipantId", <<sh.participant_id>>)
    ELSE LET inner == pvss_share_verify(conf, rng, sh)
         IN IF ~IsOk(inner) THEN inner
            ELSE share_signature_verify(parts[sh.participant_id], sh)

(***************************************************************************)
(* aggregator.rs: the transcript of the aggregator.  PVSSTranscript and    *)
(* PVSSTranscriptParticipant are used by aggregator.rs (36, 57-73) and     *)
(* defined in no source: the fields are those of the literal at            *)
(* aggregator.rs:57-70, the empty transcript and the merge follow the      *)
(* design's section 4.6, read for entries that hold c_i where those of     *)
(* share.rs hold gs.                                                       *)
(***************************************************************************)
\* share.pvss_share of the share the aggregator is handed: the PVSSShare
\* (share.rs:48-55) inside it.
pvss_share_of(sh) == [participant_id |-> sh.participant_id,
                      pvss_core      |-> sh.pvss_core,
                      signed_proof   |-> sh.signed_proof]

\* The transcript of an aggregator that has received nothing.
PVSSTranscript_empty(degree, num_participants) ==
    [degree           |-> degree,
     num_participants |-> num_participants,
     contributions    |-> << >>,
     pvss_share       |-> [pvss_core |-> PVSSCore_empty(num_participants)]]

\* PVSSTranscript::aggregate(&self, other): the configurations agree, an id
\* on both sides has one c_i and keeps self's entry, the cores of the two
\* pvss_share are summed component by component.
PVSSTranscript_aggregate(self, other) ==
    IF self.degree # other.degree
       \/ self.num_participants # other.num_participants
    THEN ErrWith("TranscriptDifferentConfig",
                 <<self.degree, other.degree,
                   self.num_participants, other.num_participants>>)
    ELSE LET both == Ids(self) \cap Ids(other)
             core == PVSSCore_aggregate(self.pvss_share.pvss_core,
                                        other.pvss_share.pvss_core)
         IN IF \E i \in both :
                  self.contributions[i].c_i # other.contributions[i].c_i
            THEN Err("TranscriptDifferentCommitments")
            ELSE IF ~IsOk(core) THEN core
            ELSE Ok([degree           |-> self.degree,
                     num_participants |-> self.num_participants,
                     contributions    |->
                        [i \in Ids(self) \cup Ids(other) |->
                           IF i \in Ids(self) THEN self.contributions[i]
                           ELSE other.contributions[i]],
                     pvss_share       |-> [pvss_core |-> core.val]])

\* receive_share assigning the merged transcript before looking at the
\* verdict of share_verify.
receive_share_merge_first(conf, parts, aggregator_transcript, rng, sh) ==
    LET verdict == share_verify(conf, parts, rng, sh)
        one == [degree           |-> conf.degree,
                num_participants |-> Cardinality(DOMAIN parts),
                contributions    |->
                   [i \in {sh.participant_id} |->
                      [c_i              |-> sh.c_i,
                       signature_on_c_i |-> sh.signature_on_c_i]],
                pvss_share       |-> pvss_share_of(sh)]
        merged == PVSSTranscript_aggregate(aggregator_transcript, one)
    IN IF ~IsOk(merged)
       THEN [result |-> merged, transcript |-> aggregator_transcript]
       ELSE IF ~IsOk(verdict)
       THEN [result |-> verdict, transcript |-> merged.val]
       ELSE [result |-> Ok("unit"), transcript |-> merged.val]

\* PVSSAggregator::receive_share (aggregator.rs:48-76): share_verify and
\* `?`; the transcript of the one share, with the issuer's
\* PVSSTranscriptParticipant { c_i, signature_on_c_i } and the share's
\* pvss_share; self.transcript.aggregate(&transcript) and `?`; the
\* assignment of self.transcript.  The value is the aggregator's transcript
\* after the call and the call's result.
receive_share(conf, parts, aggregator_transcript, rng, sh) ==
    LET verdict == share_verify(conf, parts, rng, sh)
        one == [degree           |-> conf.degree,
                num_participants |-> Cardinality(DOMAIN parts),
                contributions    |->
                   [i \in {sh.participant_id} |->
                      [c_i              |-> sh.c_i,
                       signature_on_c_i |-> sh.signature_on_c_i]],
                pvss_share       |-> pvss_share_of(sh)]
        merged == PVSSTranscript_aggregate(aggregator_transcript, one)
    IN IF ~IsOk(verdict)
       THEN [result |-> verdict, transcript |-> aggregator_transcript]
       ELSE IF ~IsOk(merged)
       THEN [result |-> merged, transcript |-> aggregator_transcript]
       ELSE [result |-> Ok("unit"), transcript |-> merged.val]

(***************************************************************************)
(* The aggregator that node.rs constructs and calls (node.rs:58-63, 372,   *)
(* 435: field aggregated_tx, receive_share on a PVSSShare,                 *)
(* receive_aggregated_share) is not among the sources.  Its verification   *)
(* of a share follows the design's section 4.4, that of an aggregated      *)
(* share section 4.5, the proof and the signature of every contributing id *)
(* checked one by one (DecompProof::verify, Signature::verify on the       *)
(* proof's digest); the merges are those of share.rs.                      *)
(***************************************************************************)
\* The weight of id i in an aggregated share.  The contributions map holds
\* one SignedProof per id and nothing else: an id that is present counts
\* once.
Weight(agg, i) == IF i \in Ids(agg) THEN 1 ELSE 0

\* sum over ids of weight_i * gs_i
RECURSIVE WeightedSumGs(_, _)
WeightedSumGs(agg, ids) ==
    IF ids = {} THEN GZero
    ELSE LET i == CHOOSE x \in ids : TRUE
         IN GAdd(GMul(agg.contributions[i].decomp_proof.gs, Weight(agg, i)),
                 WeightedSumGs(agg, ids \ {i}))

\* e(-eps, g2) * prod_i e(r_i * pk_i, comms[i]) = 1 with eps = sum r_i * encs[i]
BatchedPairingHolds(conf, parts, r, core) ==
    LET n == conf.num_participants
        eps == SeqSum([j \in 1 .. n |-> GMul(core.encs[j], r[j])], n)
    IN GAdd(Pairing(GNeg(eps), conf.srs.g2),
            SeqSum([j \in 1 .. n |->
                      Pairing(GMul(parts[j - 1].public_key_sig, r[j]),
                              core.comms[j])], n)) = GZero

\* Section 4.4 for a PVSSShare of the claimed issuer i: the issuer's entry,
\* e(pk_i, comms[i]) = e(encs[i], g2), the lengths, the dual code, gs
\* against the interpolation, the proof, the EdDSA signature on its digest.
Aggregator_share_verify(conf, parts, rng, sh) ==
    LET core == sh.pvss_core
        n == conf.num_participants
        i == sh.participant_id
        dp == sh.signed_proof.decomp_proof
        deg == ensure_degree(rng, core.comms, conf.degree)
        point == lagrange_interpolation_simple(core.comms, conf.degree)
        at_i == (i + 1) \in (DOMAIN core.comms \cap DOMAIN core.encs)
    IN IF i \notin DOMAIN parts THEN Err("InvalidParticipantId")
       ELSE IF at_i /\ Pairing(parts[i].public_key_sig, core.comms[i + 1])
                         # Pairing(core.encs[i + 1], conf.srs.g2)
       THEN Err("EncryptionCorrectnessError")
       ELSE IF Len(core.encs) # n \/ Len(core.comms) # n
       THEN Err("MismatchedCommitsEncryptionsParticipantsError")
       ELSE IF ~at_i THEN Err("EncryptionCorrectnessError")
       ELSE IF ~IsOk(deg) THEN deg
       ELSE IF point # Ok(dp.gs) THEN Err("GSCheckError")
       ELSE IF ~IsOk(DecompProof_verify(dp, conf))
       THEN Err("NIZKProofDoesNotVerifyError")
       ELSE IF ~IsOk(Signature_verify(sh.signed_proof.signature_on_decomp,
                                      DecompProof_digest(dp),
                                      parts[i].public_key_ed))
       THEN Err("EdDSAInvalidSignatureError")
       ELSE Ok("unit")

\* receive_share of that aggregator: the share is verified, merged by
\* aggregate_pvss_share, and aggregated_tx assigned last.
Aggregator_receive_share(conf, parts, aggregated_tx, rng, sh) ==
    LET verdict == Aggregator_share_verify(conf, parts, rng, sh)
        merged == aggregate_pvss_share(aggregated_tx, sh)
    IN IF ~IsOk(verdict)
       THEN [result |-> verdict, aggregated_tx |-> aggregated_tx]
       ELSE IF ~IsOk(merged)
       THEN [result |-> merged, aggregated_tx |-> aggregated_tx]
       ELSE [result |-> Ok("unit"), aggregated_tx |-> merged.val]

aggregation_verify(conf, parts, rng, agg) ==
    LET core == agg.pvss_core
        n == conf.num_participants
        deg == ensure_degree(rng.poly, core.comms, conf.degree)
        point == lagrange_interpolation_simple(core.comms, conf.degree)
        ids == Ids(agg)
    IN IF Len(core.encs) # n \/ Len(core.comms) # n
       THEN Err("MismatchedCommitsEncryptionsParticipantsError")
       ELSE IF ~IsOk(deg) THEN deg
       ELSE IF \E j \in 0 .. (n - 1) : j \notin DOMAIN parts
       THEN Err("InvalidParticipantId")
       ELSE IF ~BatchedPairingHolds(conf, parts, rng.r, core)
       THEN Err("EncryptionCorrectnessError")
       ELSE IF ~IsOk(point) THEN point
       ELSE IF WeightedSumGs(agg, ids) # point.val
       THEN Err("AggregationReconstructionMismatchError")
       ELSE IF \E i \in ids : i \notin DOMAIN parts
       THEN Err("InvalidParticipantId")
       ELSE IF \E i \in ids :
                 ~IsOk(DecompProof_verify(agg.contributions[i].decomp_proof, conf))
       THEN Err("NIZKProofDoesNotVerifyError")
       ELSE IF \E i \in ids :
                 ~IsOk(Signature_verify(
                          agg.contributions[i].signature_on_decomp,
                          DecompProof_digest(agg.contributions[i].decomp_proof),
                          parts[i].public_key_ed))
       THEN Err("EdDSAInvalidSignatureError")
       ELSE Ok("unit")

receive_aggregated_share(conf, parts, aggregated_tx, rng, agg) ==
    LET verdict == aggregation_verify(conf, parts, rng, agg)
        merged == aggregate(aggregated_tx, agg)
    IN IF ~IsOk(verdict)
       THEN [result |-> verdict, aggregated_tx |-> aggregated_tx]
       ELSE IF ~IsOk(merged)
       THEN [result |-> merged, aggregated_tx |-> aggregated_tx]
       ELSE [result |-> Ok("unit"), aggregated_tx |-> merged.val]

(***************************************************************************)
(* The system: n nodes, each a dealer and an aggregator over one Config.   *)
(* The sources know two aggregators: the one of aggregator.rs, which keeps *)
(* a transcript (PVSSTranscript) and receives shares that carry c_i, and   *)
(* the one node.rs constructs and its tests call, which keeps an           *)
(* aggregated_tx (PVSSAggregatedShare) and receives PVSSShares and         *)
(* aggregated shares.  A node holds the state of both.                     *)
(***************************************************************************)
Secrets == {1, 2}              \* free terms p(0) the dealers draw
Polys(t) == {[k \in 1 .. (t + 1) |-> IF k = 1 THEN s ELSE 1] : s \in Secrets}
\* proof nonces r the dealers draw: two for the secret 1, so that one dealer
\* can issue two shares with the same gs and different proofs
Nonces(poly) == IF poly[1] = 1 THEN {2, 3} ELSE {2}
Rngs == {[poly |-> <<1, 0>>, r |-> <<1, 1, 1, 1, 1>>],
         [poly |-> <<2, 3>>, r |-> <<1, 2, 3, 4, 1>>]}
TamperKinds == {"gs", "z", "sig", "c_i", "id"}

Configs(shapes) ==
    {[srs |-> [g1 |-> 2, g2 |-> 3, g2_prime |-> 4],
      degree |-> s[1], num_participants |-> s[2]] : s \in shapes}

NodeIds == 0 .. (config.num_participants - 1)

\* SchnorrSignature::generate_keypair over the SRS of schnorr/srs.rs, whose
\* generator is the base point of G1 (discrete logarithm 1).
KeyPairSig(i) ==
    LET sk == (i % (P - 1)) + 1 IN <<sk, GMul(SCHSRS_setup.g_public_key, sk)>>

ParticipantOf(i) == [id |-> i,
                     public_key_sig |-> KeyPairSig(i)[2],
                     public_key_ed  |-> EdPublicKey(i + 1)]

DealerOf(i) == [private_key_sig |-> KeyPairSig(i)[1],
                private_key_ed  |-> i + 1,
                participant     |-> ParticipantOf(i)]

NoCall == [op |-> "none", node |-> 0, result |-> "none"]

\* No call made yet in this run.
Idle == last = NoCall

\* Node::new for every node of a configuration.
InitWith(shapes) ==
    /\ config \in Configs(shapes)
    /\ participants = [i \in NodeIds |-> ParticipantOf(i)]
    /\ dealers = [i \in NodeIds |-> DealerOf(i)]
    /\ issued = {}
    /\ aggs = {}
    /\ tx = [i \in NodeIds |->
               empty(config.degree, Cardinality(DOMAIN participants))]
    /\ transcript = [i \in NodeIds |->
                       PVSSTranscript_empty(config.degree,
                                            Cardinality(DOMAIN participants))]
    /\ last = NoCall
    /\ calls = 0
    /\ delivered = {}

ResultName(r) == IF r.tag = "Err" THEN r.err ELSE r.tag

\* The share as the aggregator of aggregator.rs takes it (the fields read
\* at aggregator.rs:56-66 and 297-313): the share of Node::share together
\* with a commitment c_i in G1 and the issuer's signature on
\* message_from_c_i(c_i) under its private_key_sig, made with the nonce v.
PVSSAugmentedShare(sh, dealer, c_i, v) ==
    [participant_id   |-> sh.participant_id,
     pvss_core        |-> sh.pvss_core,
     signed_proof     |-> sh.signed_proof,
     c_i              |-> c_i,
     signature_on_c_i |->
        SchnorrSignature_sign(SCHSRS_setup, v, dealer.private_key_sig,
                              message_from_c_i(c_i).val)]

\* The commitments c_i the issuers attach and the nonces of their
\* signatures on them.
SentCommitments == {config.srs.g1}
SigNonces == {2}

\* A share as a peer other than its dealer can alter it in transit.
Tamper(sh, kind) ==
    LET dp == sh.signed_proof.decomp_proof
        other == Decomp_generate(2, config, FAdd(1, CHOOSE w \in F : GMul(config.srs.g2, w) = dp.gs))
    IN CASE kind = "gs" ->
              [sh EXCEPT !.signed_proof =
                  [decomp_proof |-> other,
                   signature_on_decomp |->
                      Signature_new(DecompProof_digest(other),
                                    dealers[sh.participant_id].private_key_ed)]]
         [] kind = "z" ->
              [sh EXCEPT !.signed_proof.decomp_proof.proof[3] = FAdd(@, 1)]
         [] kind = "sig" ->
              [sh EXCEPT !.signature_on_c_i[2] = FAdd(@, 1)]
         [] kind = "c_i" ->
              [sh EXCEPT !.c_i = GAdd(@, 1)]
         [] kind = "id" ->
              [sh EXCEPT !.participant_id = config.num_participants]

\* Node i calls share() and sends the share, with c_i and its signature
\* on c_i, to the peers.
Deal(i, poly, r, limit) ==
    /\ Cardinality(issued) < limit
    /\ LET res == share(config, participants, dealers[i], poly, r)
       IN /\ IsOk(res)
          /\ \E c_i \in SentCommitments, v \in SigNonces :
                issued' = issued \cup
                             {PVSSAugmentedShare(res.val, dealers[i], c_i, v)}
    /\ UNCHANGED <<transcript, config, participants, dealers, aggs, tx, last, calls, delivered>>

\* The dealer of sh sends it once more with another c_i, signed as the
\* first.
Recommit(sh) ==
    /\ Cardinality(issued) < MaxIssued
    /\ sh.participant_id \in NodeIds
    /\ \E v \in SigNonces :
          issued' = issued \cup
             {PVSSAugmentedShare(pvss_share_of(sh), dealers[sh.participant_id],
                                 GAdd(sh.c_i, config.srs.g1), v)}
    /\ UNCHANGED <<transcript, config, participants, dealers, aggs, tx, last, calls, delivered>>

\* A share reaches the peers altered.
Forge(sh, kind) ==
    /\ Cardinality(issued) < MaxIssued
    /\ sh.participant_id \in NodeIds
    /\ issued' = issued \cup {Tamper(sh, kind)}
    /\ UNCHANGED <<transcript, config, participants, dealers, aggs, tx, last, calls, delivered>>

\* A node sends the aggregated share agg to the peers.
Publish(agg, limit) ==
    /\ Cardinality(aggs) < limit
    /\ aggs' = aggs \cup {agg}
    /\ UNCHANGED <<transcript, config, participants, dealers, issued, tx, last, calls, delivered>>

\* receive_share(rng, share) of aggregator.rs on the aggregator of `node`
ReceiveShare(node, sh, rng) ==
    LET out == receive_share(config, participants, transcript[node],
                             rng.poly, sh)
    IN /\ transcript' = [transcript EXCEPT ![node] = out.transcript]
       /\ last' = [op |-> "receive_share", node |-> node,
                   pre |-> transcript[node],
                   arg |-> sh, result |-> ResultName(out.result)]
       /\ calls' = calls + 1
       /\ UNCHANGED <<config, participants, dealers, issued, aggs, tx>>

\* node.aggregator.receive_share(rng, &mut share) as node.rs calls it, the
\* share a PVSSShare and the aggregator's state its aggregated_tx
AggregatorReceiveShare(node, sh, rng) ==
    LET out == Aggregator_receive_share(config, participants, tx[node],
                                        rng.poly, sh)
    IN /\ tx' = [tx EXCEPT ![node] = out.aggregated_tx]
       /\ last' = [op |-> "receive_share", node |-> node, pre |-> tx[node],
                   arg |-> sh, result |-> ResultName(out.result)]
       /\ calls' = calls + 1
       /\ UNCHANGED <<transcript, config, participants, dealers, issued, aggs>>

\* node.aggregator.receive_aggregated_share(rng, agg)
ReceiveAggregatedShare(node, agg, rng) ==
    LET out == receive_aggregated_share(config, participants, tx[node], rng,
                                        agg)
    IN /\ tx' = [tx EXCEPT ![node] = out.aggregated_tx]
       /\ last' = [op |-> "receive_aggregated_share", node |-> node,
                   pre |-> tx[node], arg |-> agg,
                   result |-> ResultName(out.result)]
       /\ calls' = calls + 1
       /\ UNCHANGED <<transcript, config, participants, dealers, issued, aggs>>

Shapes == {<<1, 1>>, <<1, 2>>, <<1, 3>>}   \* (t, n) of the free runs

Init == InitWith(Shapes)

\* The nodes whose aggregators are sent something in a run.
Receivers == {i \in NodeIds : i < MaxReceivers}

Next ==
    \/ \E i \in NodeIds, poly \in Polys(config.degree) :
          \E r \in Nonces(poly) : Deal(i, poly, r, MaxIssued)
    \/ \E sh \in issued, kind \in TamperKinds : Forge(sh, kind)
    \/ \E sh \in issued : Recommit(sh)
    \/ \E node \in Receivers : Publish(tx[node], MaxAggs)
    \/ \E node \in Receivers, sh \in issued, rng \in Rngs :
          /\ calls < MaxCalls
          /\ ReceiveShare(node, sh, rng)
          /\ UNCHANGED delivered
    \/ \E node \in Receivers, sh \in issued, rng \in Rngs :
          /\ calls < MaxCalls
          /\ AggregatorReceiveShare(node, pvss_share_of(sh), rng)
          /\ UNCHANGED delivered
    \/ \E node \in Receivers, agg \in aggs, rng \in Rngs :
          /\ calls < MaxCalls
          /\ ReceiveAggregatedShare(node, agg, rng)
          /\ UNCHANGED delivered

Spec == Init /\ [][Next]_vars

(***************************************************************************)
(* Failed receive calls                                                    *)
(***************************************************************************)
\* C7: a receive_share or receive_aggregated_share call that returns an
\* error leaves the aggregators' transcripts, the config and the
\* participants map as they were before the call.
C7_ErrorLeavesStateUnchanged ==
    [][(calls' = calls + 1 /\ last'.result \notin {"Ok", "Abort"})
          => (/\ transcript' = transcript /\ tx' = tx
              /\ config' = config /\ participants' = participants)]_vars

\* A receive_share call on a non-empty transcript was refused by
\* share_verify for the signature on c_i, the share being one that the
\* merge takes (its c_i is the one the transcript holds for its issuer);
\* the transcript is the one before the call.
C7_Witness ==
    /\ last.op = "receive_share"
    /\ last.result = "SignatureError"
    /\ last.arg.participant_id \in Ids(last.pre)
    /\ last.arg.c_i = last.pre.contributions[last.arg.participant_id].c_i
    /\ transcript[last.node] = last.pre


(***************************************************************************)
(* The four-party run of node.rs (test_aggregation_with_4_nodes): n = 4,   *)
(* t = 2, subcommittees {0, 1} and {2, 3}.  Every node issues one share;   *)
(* at level 1 each node receives the two shares of its subcommittee, in    *)
(* either order; nodes 0 and 2 then send their transcripts, and at level 2 *)
(* every node receives the other subcommittee's.  delivered records the    *)
(* receipts: <<1, node, dealer>> and <<2, node, node>>.                    *)
(***************************************************************************)
FourShape == {<<2, 4>>}
Subcommittee(i) == IF i < 2 THEN {0, 1} ELSE {2, 3}
Level1Done(node) == \A d \in Subcommittee(node) : <<1, node, d>> \in delivered
Level2Done(node) == <<2, node, node>> \in delivered

InitFour == InitWith(FourShape)

DealFour(i, poly, r) ==
    /\ i = Cardinality(issued)
    /\ Deal(i, poly, r, config.num_participants)

Level1Receive(node, sh, rng) ==
    /\ Cardinality(issued) = config.num_participants
    /\ \A k \in NodeIds : k < node => Level1Done(k)
    /\ sh.participant_id \in Subcommittee(node)
    /\ <<1, node, sh.participant_id>> \notin delivered
    /\ AggregatorReceiveShare(node, pvss_share_of(sh), rng)
    /\ delivered' = delivered \cup {<<1, node, sh.participant_id>>}

PublishFour(node) ==
    /\ node \in {0, 2}
    /\ \A k \in NodeIds : Level1Done(k)
    /\ \A k \in NodeIds : ~Level2Done(k)
    /\ tx[node] \notin aggs
    /\ Publish(tx[node], 2)

Level2Receive(node, agg, rng) ==
    /\ Cardinality(aggs) = 2
    /\ ~Level2Done(node)
    /\ Ids(agg) \cap Subcommittee(node) = {}
    /\ ReceiveAggregatedShare(node, agg, rng)
    /\ delivered' = delivered \cup {<<2, node, node>>}

NextFour ==
    \/ \E i \in NodeIds, poly \in Polys(config.degree) :
          \E r \in Nonces(poly) : DealFour(i, poly, r)
    \/ \E node \in NodeIds, sh \in issued, rng \in Rngs :
          Level1Receive(node, sh, rng)
    \/ \E node \in NodeIds : PublishFour(node)
    \/ \E node \in NodeIds, agg \in aggs, rng \in Rngs :
          Level2Receive(node, agg, rng)

SpecFour == InitFour /\ [][NextFour]_vars

HonestShares ==
    UNION {{PVSSAugmentedShare(
               share(config, participants, dealers[i], poly, r).val,
               dealers[i], c_i, v) :
               i \in NodeIds, r \in Nonces(poly),
               c_i \in SentCommitments, v \in SigNonces} :
           poly \in Polys(config.degree)}

\* C8: under a configuration with t < n and a participant entry for every
\* id, every share an honest dealer issued is accepted by share_verify,
\* whatever the verifier's randomness.
C8_HonestShareAccepted ==
    (/\ config.degree < config.num_participants
     /\ \A j \in NodeIds : j \in DOMAIN participants) =>
       \A sh \in issued \cap HonestShares : \A rng \in Rngs :
          IsOk(share_verify(config, participants, rng.poly, sh))

\* C10: with n = 1 and t = 1 the dealer's share call succeeds, its own
\* aggregator's receive_share returns Ok, and the transcript then has one
\* contribution, of weight 1, whose gs is g2 * p(0).
C10_SingleDealerAccepted ==
    (config.num_participants = 1 /\ config.degree = 1) =>
       /\ \A poly \in Polys(config.degree) : \A r \in Nonces(poly) :
             IsOk(share(config, participants, dealers[0], poly, r))
       /\ (/\ last.op = "receive_share"
           /\ last.arg \in HonestShares
           /\ last.pre = PVSSTranscript_empty(config.degree,
                                              config.num_participants)) =>
             /\ last.result = "Ok"
             /\ Ids(transcript[0]) = {0}
             /\ Weight(transcript[0], 0) = 1
             /\ \E poly \in Polys(config.degree) :
                   /\ last.arg.signed_proof.decomp_proof.gs
                         = GMul(config.srs.g2, poly[1])
                   /\ lagrange_interpolation_simple(
                         transcript[0].pvss_share.pvss_core.comms,
                         config.degree) = Ok(GMul(config.srs.g2, poly[1]))

(***************************************************************************)
(* share.rs used directly, as its tests do: aggregated shares are built    *)
(* from empty() by aggregate_pvss_share and aggregate, and transcripts     *)
(* built under other configurations are passed in as well.  aggregate is   *)
(* also called on two aggregated shares as peers send them, whose fields   *)
(* are public and whose contribution can sit at any id.                    *)
(***************************************************************************)
MaxApplies == 2                \* aggregate / aggregate_pvss_share calls in one run

AggShapes == {<<1, 2>>, <<1, 3>>, <<2, 3>>}   \* (t, n) of the transcripts passed in

ParticipantsOf(conf) ==
    [i \in 0 .. (conf.num_participants - 1) |-> ParticipantOf(i)]

\* The shares Node::share returns to the nodes of conf.
SharesUnder(conf) ==
    UNION {{share(conf, ParticipantsOf(conf), DealerOf(i), poly, r).val :
              i \in 0 .. (conf.num_participants - 1), r \in Nonces(poly)} :
           poly \in Polys(conf.degree)}

\* empty() of conf and what one aggregate_pvss_share makes of it.
TranscriptsUnder(conf) ==
    LET e == empty(conf.degree, conf.num_participants)
    IN {e} \cup {aggregate_pvss_share(e, s).val : s \in SharesUnder(conf)}

\* The shares handed to aggregate_pvss_share: those of any configuration,
\* and those of the own one with the id moved out of range.
AllShares == UNION {SharesUnder(c) : c \in Configs(AggShapes)}
AllTranscripts == UNION {TranscriptsUnder(c) : c \in Configs(AggShapes)}

SharesPassedIn ==
    AllShares \cup {Tamper(s, "id") : s \in SharesUnder(config)}

InitAggregate == InitWith({<<1, 2>>, <<1, 3>>})

\* tx[node] = tx[node].aggregate_pvss_share(&s), kept on Ok as the tests do.
ApplyAggregateShare(node, s) ==
    LET res == aggregate_pvss_share(tx[node], s)
    IN /\ calls < MaxApplies
       /\ last' = [op |-> "aggregate_pvss_share", node |-> node,
                   pre |-> tx[node], arg |-> s, ret |-> res,
                   result |-> ResultName(res)]
       /\ tx' = IF IsOk(res) THEN [tx EXCEPT ![node] = res.val] ELSE tx
       /\ calls' = calls + 1
       /\ UNCHANGED <<transcript, config, participants, dealers, issued, aggs, delivered>>

\* tx[node] = tx[node].aggregate(&other), kept on Ok.
ApplyAggregate(node, other) ==
    LET res == aggregate(tx[node], other)
    IN /\ calls < MaxApplies
       /\ last' = [op |-> "aggregate", node |-> node,
                   pre |-> tx[node], arg |-> other, ret |-> res,
                   result |-> ResultName(res)]
       /\ tx' = IF IsOk(res) THEN [tx EXCEPT ![node] = res.val] ELSE tx
       /\ calls' = calls + 1
       /\ UNCHANGED <<transcript, config, participants, dealers, issued, aggs, delivered>>

\* The one-contribution aggregated share that stands for the share s, as
\* aggregate_pvss_share builds it (share.rs:150-158).
AsAggregate(A, s) ==
    [num_participants |-> A.num_participants,
     degree           |-> A.degree,
     pvss_core        |-> s.pvss_core,
     contributions    |-> [i \in {s.participant_id} |-> s.signed_proof]]

\* Aggregated shares as peers send them: one contribution each, made from a
\* share of node 0, at an id past the participants'.
ReceivedOutOfRange ==
    {AsAggregate(empty(config.degree, config.num_participants),
                 Tamper(s, "id")) :
        s \in {x \in SharesUnder(config) : x.participant_id = 0}}

\* a.aggregate(&b) on two aggregated shares as received; the result is not
\* kept.
CallAggregate(a, b) ==
    LET res == aggregate(a, b)
    IN /\ calls < MaxApplies
       /\ last' = [op |-> "aggregate of received", node |-> 0,
                   pre |-> a, arg |-> b, ret |-> res,
                   result |-> ResultName(res)]
       /\ calls' = calls + 1
       /\ UNCHANGED <<transcript, config, participants, dealers, issued, aggs, tx, delivered>>

NextAggregate ==
    \/ \E node \in NodeIds, s \in SharesPassedIn : ApplyAggregateShare(node, s)
    \/ \E node \in NodeIds :
          \E other \in {tx[m] : m \in NodeIds} \cup AllTranscripts :
             ApplyAggregate(node, other)
    \/ \E a \in ReceivedOutOfRange, b \in ReceivedOutOfRange : CallAggregate(a, b)

SpecAggregate == InitAggregate /\ [][NextAggregate]_vars

\* The second operand of the last call as an aggregated share.
LastOther ==
    IF last.op = "aggregate_pvss_share"
    THEN AsAggregate(last.pre, last.arg) ELSE last.arg

\* The last call was a successful aggregate or aggregate_pvss_share on
\* aggregated shares of the configuration that were made from at most one
\* share each, as Node::share returns them.
MergedValidShares ==
    /\ last.op \in {"aggregate", "aggregate_pvss_share"}
    /\ IsOk(last.ret)
    /\ last.pre \in TranscriptsUnder(config)
    /\ LastOther \in TranscriptsUnder(config)

\* C1: in an aggregated share built from empty(t, n) by successful
\* aggregations of valid shares (the same share possibly folded more than
\* once), the sum over the contributions of weight_i * gs_i equals the
\* interpolation at 0 of pvss_core.comms.
C1_WeightedGsIsInterpolation ==
    MergedValidShares =>
       LET res == last.ret.val
           point == lagrange_interpolation_simple(res.pvss_core.comms,
                                                  res.degree)
       IN IsOk(point) => WeightedSumGs(res, Ids(res)) = point.val

\* C2: after a successful aggregation the weight of every id is the weight
\* it had in the first operand plus its weight in the second (absent
\* counts 0), so folding one's own share twice gives weight 2.
C2_WeightsAdd ==
    MergedValidShares =>
       \A i \in NodeIds :
          Weight(last.ret.val, i) = Weight(last.pre, i) + Weight(LastOther, i)

CoreIsSum(res, A, B) ==
    /\ Len(res.pvss_core.comms) = config.num_participants
    /\ Len(res.pvss_core.encs) = config.num_participants
    /\ \A j \in 1 .. config.num_participants :
          /\ res.pvss_core.comms[j]
               = GAdd(A.pvss_core.comms[j], B.pvss_core.comms[j])
          /\ res.pvss_core.encs[j]
               = GAdd(A.pvss_core.encs[j], B.pvss_core.encs[j])
    /\ res.degree = A.degree /\ res.degree = B.degree
    /\ res.num_participants = A.num_participants
    /\ res.num_participants = B.num_participants

\* C3: when aggregate or aggregate_pvss_share succeeds, the result's comms
\* and encs are the component-wise group sums of the operands', what is
\* kept is the result, and degree and num_participants are carried over.
C3_CoreIsComponentwiseSum ==
    (last.op \in {"aggregate", "aggregate_pvss_share"} /\ IsOk(last.ret)) =>
       /\ CoreIsSum(last.ret.val, last.pre, LastOther)
       /\ tx[last.node] = last.ret.val

\* aggregate succeeded on two aggregated shares of different dealers, both
\* with commitments other than the identity.
C3_Witness ==
    /\ last.op = "aggregate"
    /\ IsOk(last.ret)
    /\ Ids(last.pre) # {} /\ Ids(last.arg) # {}
    /\ Ids(last.pre) # Ids(last.arg)
    /\ \E j \in 1 .. config.num_participants :
          /\ last.pre.pvss_core.comms[j] # GZero
          /\ last.arg.pvss_core.comms[j] # GZero
          /\ last.ret.val.pvss_core.comms[j] # last.pre.pvss_core.comms[j]

AssocLeft(A, B, C) ==
    LET ab == aggregate(A, B)
    IN IF IsOk(ab) THEN aggregate(ab.val, C) ELSE ab

AssocRight(A, B, C) ==
    LET bc == aggregate(B, C)
    IN IF IsOk(bc) THEN aggregate(A, bc.val) ELSE bc

\* C5: for any three aggregated shares A, B, C under one (t, n) (A and B
\* any two the nodes hold, C empty() or what one share makes of it),
\* (A.aggregate(B)).aggregate(C) and A.aggregate(B.aggregate(C)) both fail
\* or both succeed with equal results.
C5_AggregateAssociative ==
    \A a, b \in NodeIds : \A C \in TranscriptsUnder(config) :
       LET l == AssocLeft(tx[a], tx[b], C)
           r == AssocRight(tx[a], tx[b], C)
       IN IF IsOk(l) THEN IsOk(r) /\ l.val = r.val ELSE ~IsOk(r)

\* Three non-empty aggregated shares of three dealers are at hand and the
\* aggregation of the three succeeds.
C5_Witness ==
    \E a, b \in NodeIds : \E C \in TranscriptsUnder(config) :
       /\ Ids(tx[a]) # {} /\ Ids(tx[b]) # {} /\ Ids(C) # {}
       /\ Ids(tx[a]) \cap Ids(tx[b]) = {}
       /\ Ids(tx[a]) \cap Ids(C) = {}
       /\ Ids(tx[b]) \cap Ids(C) = {}
       /\ IsOk(AssocLeft(tx[a], tx[b], C))
       /\ Cardinality(Ids(AssocLeft(tx[a], tx[b], C).val)) = 3

ConfigsDiffer(A, B) ==
    A.degree # B.degree \/ A.num_participants # B.num_participants

\* C11: whenever the two aggregated shares differ in degree or in
\* num_participants, aggregate returns TranscriptDifferentConfig(self.degree,
\* other.degree, self.num_participants, other.num_participants), also when
\* an id common to both carries different gs or the cores differ in length,
\* and the receiver's transcript stays as it was.
C11_DifferentConfigFirst ==
    (last.op = "aggregate" /\ ConfigsDiffer(last.pre, last.arg)) =>
       /\ last.ret = ErrWith("TranscriptDifferentConfig",
                             <<last.pre.degree, last.arg.degree,
                               last.pre.num_participants,
                               last.arg.num_participants>>)
       /\ tx[last.node] = last.pre

\* aggregate was given two shares of different configurations that hold a
\* common id with different gs.
C11_Witness ==
    /\ last.op = "aggregate"
    /\ ConfigsDiffer(last.pre, last.arg)
    /\ \E i \in Ids(last.pre) \cap Ids(last.arg) :
          last.pre.contributions[i].decomp_proof.gs
             # last.arg.contributions[i].decomp_proof.gs
    /\ last.result = "TranscriptDifferentConfig"

\* The ids both aggregated shares hold with different gs.
GsConflicts(A, B) ==
    {i \in Ids(A) \cap Ids(B) :
        A.contributions[i].decomp_proof.gs # B.contributions[i].decomp_proof.gs}

\* The conflicts aggregate looks at: those at the ids 0 .. n - 1.
GsConflictsInRange(A, B) ==
    {i \in GsConflicts(A, B) : i < A.num_participants}

\* C12 as stated: aggregate returns TranscriptDifferentCommitments whenever
\* some id is present in both contributions maps with different gs, and
\* returns Ok whenever the configs agree and every id present in both
\* carries equal gs.
C12_CommitmentsDecideAsStated ==
    last.op \in {"aggregate", "aggregate of received"} =>
       /\ GsConflicts(last.pre, last.arg) # {} =>
             last.ret = Err("TranscriptDifferentCommitments")
       /\ (~ConfigsDiffer(last.pre, last.arg)
              /\ GsConflicts(last.pre, last.arg) = {}) => IsOk(last.ret)

\* C12 amended: for two aggregated shares of one configuration, aggregate
\* returns TranscriptDifferentCommitments when some id below
\* num_participants is present in both contributions maps with different
\* gs, and returns Ok otherwise: when every id present in both carries
\* equal gs (whatever the rest of the two signed proofs), and also when the
\* only ids that carry different gs are not below num_participants.
C12_CommitmentsDecide ==
    (last.op \in {"aggregate", "aggregate of received"}
       /\ ~ConfigsDiffer(last.pre, last.arg)) =>
       IF GsConflictsInRange(last.pre, last.arg) # {}
       THEN last.ret = Err("TranscriptDifferentCommitments")
       ELSE IsOk(last.ret)

\* aggregate was given two shares of one configuration that hold a common id
\* with different gs.
C12_Witness ==
    /\ last.op = "aggregate"
    /\ ~ConfigsDiffer(last.pre, last.arg)
    /\ GsConflictsInRange(last.pre, last.arg) # {}
    /\ last.result = "TranscriptDifferentCommitments"

\* C13: empty(t, n) holds n identity elements in comms, n in encs and no
\* contributions; aggregating one PVSSShare s (a core of n commitments and n
\* encryptions, any participant_id) into it yields an aggregated
\* share whose pvss_core is s.pvss_core and whose contributions map is exactly
\* {s.participant_id -> s.signed_proof}; and aggregate_pvss_share(A, s)
\* equals aggregate(A, B) for the one-contribution B built from s.
C13_EmptyIsIdentity ==
    LET e == empty(config.degree, config.num_participants) IN
    /\ e.pvss_core.comms = [j \in 1 .. config.num_participants |-> GZero]
    /\ e.pvss_core.encs = [j \in 1 .. config.num_participants |-> GZero]
    /\ Ids(e) = {}
    /\ (last.op = "aggregate_pvss_share"
          /\ Len(last.arg.pvss_core.comms) = config.num_participants
          /\ Len(last.arg.pvss_core.encs) = config.num_participants) =>
          /\ last.ret = aggregate(last.pre, AsAggregate(last.pre, last.arg))
          /\ last.pre = e =>
                /\ IsOk(last.ret)
                /\ last.ret.val.pvss_core = last.arg.pvss_core
                /\ last.ret.val.contributions =
                      [i \in {last.arg.participant_id} |-> last.arg.signed_proof]

(***************************************************************************)
(* Folds: a sequence of shares that share_verify accepts is folded into    *)
(* empty(t, n) by aggregate_pvss_share, and aggregation_verify is applied  *)
(* to the aggregated share that comes out.                                 *)
(***************************************************************************)
MaxFold == 3                   \* shares in one fold
FoldShapes == {<<1, 3>>, <<2, 4>>}   \* (t, n), n >= t + 2

InitFold == InitWith(FoldShapes)

\* What reaches an aggregator: the shares the dealers send, as they are or
\* with the response of the proof altered.
Reaching == HonestShares \cup {Tamper(sh, "z") : sh \in HonestShares}

\* The shares among them that share_verify accepts whatever the verifier's
\* randomness.
Accepted ==
    {sh \in Reaching :
       \A rng \in Rngs : IsOk(share_verify(config, participants, rng.poly, sh))}

RECURSIVE FoldFrom(_, _, _)
FoldFrom(acc, q, k) ==
    IF k > Len(q) THEN Ok(acc)
    ELSE LET step == aggregate_pvss_share(acc, q[k])
         IN IF IsOk(step) THEN FoldFrom(step.val, q, k + 1) ELSE step

\* s_1 .. s_k folded one after the other into empty(t, n)
Fold(q) == FoldFrom(empty(config.degree, config.num_participants), q, 1)

FoldInputs == UNION {[1 .. k -> Accepted] : k \in 1 .. MaxFold}
Orderings(k) == {f \in [1 .. k -> 1 .. k] : \A x, y \in 1 .. k : f[x] = f[y] => x = y}
Reorder(q, f) == [j \in 1 .. Len(q) |-> q[f[j]]]

\* The shares q are folded into empty(t, n).
CallFold(q) ==
    /\ last' = [op |-> "fold", arg |-> q, ret |-> Fold(q),
                result |-> ResultName(Fold(q))]
    /\ UNCHANGED <<transcript, config, participants, dealers, issued, aggs, tx, calls,
                   delivered>>

\* aggregation_verify(rng, agg) on the fold agg of the shares q.
CallAggregationVerify(q, rng) ==
    /\ IsOk(Fold(q))
    /\ LET ret == aggregation_verify(config, participants, rng, Fold(q).val)
       IN last' = [op |-> "aggregation_verify", arg |-> q, rng |-> rng,
                   ret |-> ret, result |-> ResultName(ret)]
    /\ UNCHANGED <<transcript, config, participants, dealers, issued, aggs, tx, calls,
                   delivered>>

NextFold ==
    \/ /\ Idle
       /\ \E q \in FoldInputs : CallFold(q)
    \/ /\ Idle
       /\ \E q \in FoldInputs, rng \in Rngs : CallAggregationVerify(q, rng)

SpecFold == InitFold /\ [][NextFold]_vars

SameProofPerId(q) ==
    \A j, k \in 1 .. Len(q) :
       q[j].participant_id = q[k].participant_id
          => q[j].signed_proof = q[k].signed_proof

\* C4 as stated: two orderings of the same multiset of accepted shares fold
\* into the same aggregated share: the same pvss_core and the same
\* contributions map (same ids, same signed proofs, same weights).
C4_FoldOrderIndependent ==
    last.op = "fold" =>
       \A f \in Orderings(Len(last.arg)) :
          LET r == Fold(Reorder(last.arg, f))
          IN (IsOk(last.ret) /\ IsOk(r)) => last.ret.val = r.val

\* C4 amended: two orderings of the same multiset of accepted shares both
\* fail to fold or both fold into aggregated shares with the same
\* pvss_core, degree and num_participants, the same ids, the same weights
\* and the same gs per id; the signed proof kept for an id is that of the
\* first share of that id in the ordering, so the two are equal altogether
\* when the shares of one id carry one signed proof.
C4_FoldOrderIndependentUpToProofs ==
    last.op = "fold" =>
       \A f \in Orderings(Len(last.arg)) :
          LET q == Reorder(last.arg, f)
              l == last.ret
              r == Fold(q)
          IN IF IsOk(l)
             THEN /\ IsOk(r)
                  /\ l.val.pvss_core = r.val.pvss_core
                  /\ l.val.degree = r.val.degree
                  /\ l.val.num_participants = r.val.num_participants
                  /\ Ids(l.val) = Ids(r.val)
                  /\ \A i \in NodeIds : Weight(l.val, i) = Weight(r.val, i)
                  /\ \A i \in Ids(r.val) :
                        /\ l.val.contributions[i].decomp_proof.gs
                              = r.val.contributions[i].decomp_proof.gs
                        /\ \E k \in 1 .. Len(q) :
                              /\ q[k].participant_id = i
                              /\ \A j \in 1 .. (k - 1) : q[j].participant_id # i
                              /\ r.val.contributions[i] = q[k].signed_proof
                  /\ SameProofPerId(last.arg) => l.val = r.val
             ELSE ~IsOk(r)

\* Three accepted shares, two of one dealer with the same gs and different
\* signed proofs and one of another dealer, were folded; they fold in every
\* order into the same pvss_core, and two of the orders keep different
\* proofs.
C4_Witness ==
    /\ last.op = "fold"
    /\ Len(last.arg) = 3
    /\ IsOk(last.ret)
    /\ last.arg[1].participant_id = last.arg[2].participant_id
    /\ last.arg[1].participant_id # last.arg[3].participant_id
    /\ last.arg[1].signed_proof.decomp_proof.gs
          = last.arg[2].signed_proof.decomp_proof.gs
    /\ last.arg[1].signed_proof # last.arg[2].signed_proof
    /\ \A f \in Orderings(3) :
          /\ IsOk(Fold(Reorder(last.arg, f)))
          /\ Fold(Reorder(last.arg, f)).val.pvss_core = last.ret.val.pvss_core
    /\ \E f \in Orderings(3) : Fold(Reorder(last.arg, f)).val # last.ret.val

\* C9: under a configuration with n >= t + 2, whenever a sequence of honest
\* shares (dealers distinct or repeated) folds into empty(t, n),
\* aggregation_verify accepts the aggregated share.
C9_FoldOfHonestSharesVerifies ==
    (/\ last.op = "aggregation_verify"
     /\ config.degree + 2 <= config.num_participants
     /\ \A k \in 1 .. Len(last.arg) : last.arg[k] \in HonestShares) =>
       IsOk(last.ret)

(***************************************************************************)
(* poly.rs and decryption.rs used directly, as the tests of poly.rs do: a  *)
(* polynomial is sampled, its evaluations at 1..n are committed to in G2   *)
(* and encrypted in G1 under keys pk_j = g1 * sk_j, and the degree check,  *)
(* the decryption and the interpolations are applied to the two vectors.   *)
(* Here `issued` holds the one dealt vector with the polynomial behind it. *)
(***************************************************************************)
PolyShapes == {<<0, 2>>, <<1, 3>>, <<1, 4>>}   \* (t, n), n >= t + 2

\* SCHSRS::from_generator(conf.srs.g1) and generate_keypair (poly.rs:446-455).
PolyKey(conf, i) == LET sk == (i % (P - 1)) + 1 IN <<sk, GMul(conf.srs.g1, sk)>>

\* The coefficient vectors of the polynomials of degree at most t + 1.
SampledPolys(t) == [1 .. (t + 2) -> Scalars]

\* The least d with every coefficient above x^d zero.
PolyDegree(q) ==
    IF \A k \in DOMAIN q : q[k] = 0 THEN 0
    ELSE (CHOOSE k \in DOMAIN q : q[k] # 0 /\ \A m \in DOMAIN q : m > k => q[m] = 0) - 1

\* comms and encs of the polynomial q (poly.rs:495-513).
DealtVector(conf, q) ==
    LET s == [j \in 1 .. conf.num_participants |-> PolyEvaluate(q, ScalarFrom(j))]
    IN [poly  |-> q,
        comms |-> [j \in 1 .. conf.num_participants |-> GMul(conf.srs.g2, s[j])],
        encs  |-> [j \in 1 .. conf.num_participants |->
                     GMul(PolyKey(conf, j - 1)[2], s[j])]]

InitPoly ==
    /\ config \in Configs(PolyShapes)
    /\ participants = [i \in NodeIds |->
                         [id |-> i, public_key_sig |-> PolyKey(config, i)[2],
                          public_key_ed |-> EdPublicKey(i + 1)]]
    /\ dealers = [i \in NodeIds |->
                    [private_key_sig |-> PolyKey(config, i)[1],
                     private_key_ed |-> i + 1,
                     participant |-> participants[i]]]
    /\ issued \in {{DealtVector(config, q)} : q \in SampledPolys(config.degree)}
    /\ aggs = {}
    /\ tx = << >>
    /\ transcript = << >>
    /\ last = NoCall
    /\ calls = 0
    /\ delivered = {}

Dealt == CHOOSE d \in issued : TRUE

\* The call is recorded in `last`.  The functions are pure, a call leaves
\* nothing behind for the next one, and a run makes one call.
Called(op, arg, ret) ==
    /\ last' = [op |-> op, arg |-> arg, ret |-> ret, result |-> ResultName(ret)]
    /\ UNCHANGED <<transcript, config, participants, dealers, issued, aggs, tx, calls, delivered>>

\* ensure_degree(rng, &comms, t), rng yielding the scalars of the sequence r.
CallEnsureDegree(r) ==
    Called("ensure_degree", r, ensure_degree(r, Dealt.comms, config.degree))

\* ensure_degree(rng, &comms[..k], t) on the first k commitments.
CallEnsureDegreeOnPrefix(k, r) ==
    Called("ensure_degree on a prefix", [k |-> k, r |-> r],
           ensure_degree(r, SubSeq(Dealt.comms, 1, k), config.degree))

\* lagrange_interpolation_simple on the first k commitments.
CallInterpolateSimple(k) ==
    Called("lagrange_interpolation_simple", k,
           lagrange_interpolation_simple(SubSeq(Dealt.comms, 1, k), config.degree))

\* DecryptedShare::generate(&encs, &sk_j, j) by node j.
CallDecrypt(j) ==
    Called("DecryptedShare::generate", j,
           DecryptedShare_generate(Dealt.encs, dealers[j].private_key_sig, j))

\* The decrypted shares of the nodes sel[1], sel[2], ... in that order.
Decryptions(sel) ==
    [k \in 1 .. Len(sel) |->
       DecryptedShare_generate(Dealt.encs, dealers[sel[k]].private_key_sig, sel[k]).val]

\* The points passed along: origin + 1 per share, one dropped or one added
\* when the caller gets the length wrong.
PointsOf(sel, skew) ==
    LET base == [k \in 1 .. Len(sel) |-> sel[k] + 1]
    IN IF skew = -1 /\ Len(sel) > 0 THEN SubSeq(base, 1, Len(sel) - 1)
       ELSE IF skew = 1 THEN Append(base, config.num_participants + 1)
       ELSE base

\* Reconstruction in G1 from decrypted shares (points as scalars).
CallInterpolateG1(sel, skew) ==
    LET decs == Decryptions(sel)
        pts == PointsOf(sel, skew)
    IN Called("lagrange_interpolation_g1", [sel |-> sel, points |-> pts],
              lagrange_interpolation_g1([k \in 1 .. Len(sel) |-> decs[k].dec],
                                        [k \in 1 .. Len(pts) |-> ScalarFrom(pts[k])],
                                        config.degree))

\* Interpolation in G2 of the commitments of the nodes in sel.
CallInterpolateG2(sel, skew) ==
    LET pts == PointsOf(sel, skew)
    IN Called("lagrange_interpolation_g2", [sel |-> sel, points |-> pts],
              lagrange_interpolation_g2([k \in 1 .. Len(sel) |-> Dealt.comms[sel[k] + 1]],
                                        [k \in 1 .. Len(pts) |-> ScalarFrom(pts[k])],
                                        config.degree))

\* Beacon reconstruction in GT: evals e(dec_j, g_r) with g_r = srs.g2
\* (poly.rs:402, 411-413), points as u64.
ReconstructGT(sel, pts) ==
    LET decs == Decryptions(sel)
    IN lagrange_interpolation_gt(
          [k \in 1 .. Len(sel) |-> Pairing(decs[k].dec, config.srs.g2)],
          pts, config.degree)

CallInterpolateGT(sel, skew) ==
    Called("lagrange_interpolation_gt",
           [sel |-> sel, points |-> PointsOf(sel, skew)],
           ReconstructGT(sel, PointsOf(sel, skew)))

\* One of the three variants on shares of which two of the first t + 1
\* carry the same origin, with the points origin + 1.
CallInterpolateRepeated(variant, sel) ==
    LET decs == Decryptions(sel)
        pts == PointsOf(sel, 0)
        xs == [k \in 1 .. Len(pts) |-> ScalarFrom(pts[k])]
    IN Called("interpolation with a repeated origin",
              [variant |-> variant, sel |-> sel, points |-> pts],
              CASE variant = "lagrange_interpolation_g1" ->
                     lagrange_interpolation_g1(
                        [k \in 1 .. Len(sel) |-> decs[k].dec], xs, config.degree)
                [] variant = "lagrange_interpolation_g2" ->
                     lagrange_interpolation_g2(
                        [k \in 1 .. Len(sel) |-> Dealt.comms[sel[k] + 1]], xs,
                        config.degree)
                [] variant = "lagrange_interpolation_gt" ->
                     ReconstructGT(sel, pts))

\* The sequences of t + 1 or t + 2 node ids with a repetition among the
\* first t + 1.
RepeatedSelections ==
    UNION {{sel \in [1 .. k -> NodeIds] :
              \E a, b \in 1 .. (config.degree + 1) : a # b /\ sel[a] = sel[b]} :
           k \in (config.degree + 1) .. (config.degree + 2)}

GeneralVariants == {"lagrange_interpolation_g1", "lagrange_interpolation_g2",
                    "lagrange_interpolation_gt"}

\* The sequences of pairwise distinct node ids.
Selections ==
    UNION {{sel \in [1 .. k -> NodeIds] :
              \A a, b \in 1 .. k : a # b => sel[a] # sel[b]} :
           k \in 0 .. config.num_participants}

Skews == {-1, 0, 1}

NextPoly ==
    \/ /\ Idle
       /\ \E r \in [1 .. (config.num_participants - config.degree - 1) -> Scalars] :
             CallEnsureDegree(r)
    \/ /\ Idle
       /\ \E k \in 0 .. config.num_participants :
             \E r \in [1 .. (config.num_participants - config.degree - 1) -> Scalars] :
                CallEnsureDegreeOnPrefix(k, r)
    \/ /\ Idle
       /\ \E k \in 0 .. config.num_participants : CallInterpolateSimple(k)
    \/ /\ Idle
       /\ \E j \in NodeIds : CallDecrypt(j)
    \/ /\ Idle
       /\ \E sel \in Selections, skew \in Skews : CallInterpolateG1(sel, skew)
    \/ /\ Idle
       /\ \E sel \in Selections, skew \in Skews : CallInterpolateG2(sel, skew)
    \/ /\ Idle
       /\ \E sel \in Selections, skew \in Skews : CallInterpolateGT(sel, skew)
    \/ /\ Idle
       /\ \E variant \in GeneralVariants, sel \in RepeatedSelections :
             CallInterpolateRepeated(variant, sel)

SpecPoly == InitPoly /\ [][NextPoly]_vars

\* C14: dual-code completeness.  For commitments comms[j] = g2 * q(j + 1),
\* j in [0, n), of a polynomial q of degree at most t, with n >= t + 2,
\* ensure_degree(comms, t) returns Ok for every sampled polynomial f of
\* degree n - t - 2.
C14_DualCodeComplete ==
    (last.op = "ensure_degree" /\ PolyDegree(Dealt.poly) <= config.degree) =>
       last.ret = Ok("unit")

\* ensure_degree accepted the commitments of a polynomial of degree t >= 1
\* with a non-constant sampled polynomial.
C14_Witness ==
    /\ last.op = "ensure_degree"
    /\ config.degree >= 1
    /\ PolyDegree(Dealt.poly) = config.degree
    /\ PolyDegree(last.arg) >= 1
    /\ last.result = "Ok"

\* The coefficient of x^(n - t - 2) of the polynomial sampled from r.
TopCoefficient(r) == r[config.num_participants - config.degree - 1]

\* C15: dual-code detection.  For commitments comms[j] = g2 * q(j + 1),
\* j in [0, n), of a polynomial q of degree exactly t + 1, with n >= t + 2,
\* ensure_degree(comms, t) returns DualCodeError for every sampled f whose
\* coefficient of x^(n - t - 2) is not zero.
C15_DualCodeDetects ==
    (last.op = "ensure_degree"
       /\ PolyDegree(Dealt.poly) = config.degree + 1
       /\ TopCoefficient(last.arg) # 0) =>
       last.ret = Err("DualCodeError")

\* ensure_degree rejected the commitments of a polynomial of degree t + 1
\* with a sampled polynomial of degree n - t - 2 >= 1.
C15_Witness ==
    /\ last.op = "ensure_degree"
    /\ PolyDegree(Dealt.poly) = config.degree + 1
    /\ config.num_participants - config.degree - 2 >= 1
    /\ TopCoefficient(last.arg) # 0
    /\ last.result = "DualCodeError"

\* The first t + 1 nodes in id order, whose points are 1..=t+1.
FirstNodes == [k \in 1 .. (config.degree + 1) |-> k - 1]

\* C16: for every polynomial p of degree at most t and every prefix of at
\* least t + 1 of the commitments evals[j] = g2 * p(j + 1),
\* lagrange_interpolation_simple(evals, t) returns g2 * p(0); and so does
\* lagrange_interpolation_g2 on the first t + 1 commitments with the points
\* 1..=t+1.
C16_InterpolationRecoversFreeTerm ==
    PolyDegree(Dealt.poly) <= config.degree =>
       /\ (last.op = "lagrange_interpolation_simple"
             /\ last.arg >= config.degree + 1) =>
             last.ret = Ok(GMul(config.srs.g2, Dealt.poly[1]))
       /\ (last.op = "lagrange_interpolation_g2"
             /\ last.arg.sel = FirstNodes
             /\ last.arg.points = [k \in 1 .. (config.degree + 1) |-> k]) =>
             last.ret = Ok(GMul(config.srs.g2, Dealt.poly[1]))

\* lagrange_interpolation_simple was given more than t + 1 commitments of a
\* polynomial of degree t >= 1 with a free term other than zero.
C16_Witness ==
    /\ last.op = "lagrange_interpolation_simple"
    /\ config.degree >= 1
    /\ last.arg > config.degree + 1
    /\ PolyDegree(Dealt.poly) = config.degree
    /\ Dealt.poly[1] # 0
    /\ last.ret = Ok(GMul(config.srs.g2, Dealt.poly[1]))

\* C17: for one polynomial of degree at most t dealt to n parties,
\* lagrange_interpolation_gt on the evals e(dec_j, g_r) of correctly
\* decrypted shares with the points origin_j + 1 returns one and the same
\* element of GT, that of the first t + 1 parties, for every choice of
\* t + 1 distinct origins in any order, and for more than t + 1 pairs too.
C17_BeaconIndependentOfSubset ==
    (last.op = "lagrange_interpolation_gt"
       /\ PolyDegree(Dealt.poly) <= config.degree
       /\ Len(last.arg.sel) >= config.degree + 1
       /\ last.arg.points = PointsOf(last.arg.sel, 0)) =>
       /\ IsOk(last.ret)
       /\ last.ret = ReconstructGT(FirstNodes, PointsOf(FirstNodes, 0))

\* The beacon was reconstructed from t + 1 >= 2 shares, none of them of the
\* first t + 1 parties and not in id order, for a polynomial of degree t
\* with a free term other than zero.
C17_Witness ==
    /\ last.op = "lagrange_interpolation_gt"
    /\ config.degree >= 1
    /\ PolyDegree(Dealt.poly) = config.degree
    /\ Dealt.poly[1] # 0
    /\ Len(last.arg.sel) = config.degree + 1
    /\ last.arg.points = PointsOf(last.arg.sel, 0)
    /\ \A k \in 1 .. Len(last.arg.sel) : last.arg.sel[k] > config.degree
    /\ last.arg.sel[1] > last.arg.sel[2]
    /\ IsOk(last.ret)

\* C18: with pk_j = g1 * sk_j, sk_j # 0, and encs[j] = pk_j * p(j + 1),
\* DecryptedShare::generate(encs, sk_j, j) is (g1 * p(j + 1), origin j); and
\* for p of degree at most t, lagrange_interpolation_g1 over t + 1 such
\* shares with pairwise distinct origins and the points origin + 1 returns
\* g1 * p(0).
C18_ReconstructionInG1 ==
    /\ last.op = "DecryptedShare::generate" =>
          last.ret = Ok([dec |-> GMul(config.srs.g1,
                                      PolyEvaluate(Dealt.poly, ScalarFrom(last.arg + 1))),
                         origin |-> last.arg])
    /\ (last.op = "lagrange_interpolation_g1"
          /\ PolyDegree(Dealt.poly) <= config.degree
          /\ Len(last.arg.sel) = config.degree + 1
          /\ last.arg.points = PointsOf(last.arg.sel, 0)) =>
          last.ret = Ok(GMul(config.srs.g1, Dealt.poly[1]))

\* g1 * p(0) was reconstructed from t + 1 >= 2 decrypted shares, one of them
\* of a party past the first t + 1, for a polynomial of degree t with a free
\* term other than zero.
C18_Witness ==
    /\ last.op = "lagrange_interpolation_g1"
    /\ config.degree >= 1
    /\ PolyDegree(Dealt.poly) = config.degree
    /\ Dealt.poly[1] # 0
    /\ Len(last.arg.sel) = config.degree + 1
    /\ last.arg.points = PointsOf(last.arg.sel, 0)
    /\ \E k \in 1 .. Len(last.arg.sel) : last.arg.sel[k] > config.degree
    /\ last.ret = Ok(GMul(config.srs.g1, Dealt.poly[1]))

\* C19: every Lagrange variant returns InsufficientEvaluationsError when it
\* is given fewer than t + 1 evaluations, whatever the points, and the
\* variants over G1, G2 and GT return DifferentPointsEvalsError when they
\* are given at least t + 1 evaluations and a points vector of another
\* length; no group element is returned in either case.
C19_LagrangeErrors ==
    /\ (last.op = "lagrange_interpolation_simple"
          /\ last.arg < config.degree + 1) =>
          last.ret = Err("InsufficientEvaluationsError")
    /\ (last.op \in GeneralVariants
          /\ Len(last.arg.sel) < config.degree + 1) =>
          last.ret = Err("InsufficientEvaluationsError")
    /\ (last.op \in GeneralVariants
          /\ Len(last.arg.sel) >= config.degree + 1
          /\ Len(last.arg.points) # Len(last.arg.sel)) =>
          last.ret = Err("DifferentPointsEvalsError")

\* Reconstruction in G1 was tried from t >= 1 decrypted shares and as many
\* points.
C19_Witness ==
    /\ last.op = "lagrange_interpolation_g1"
    /\ config.degree >= 1
    /\ Len(last.arg.sel) = config.degree
    /\ Len(last.arg.points) = config.degree
    /\ last.result = "InsufficientEvaluationsError"

(***************************************************************************)
(* nizk/dlk and decomp.rs used directly, as their tests do: a proof is     *)
(* generated for a witness and then verified.  The generator of the DLK    *)
(* scheme is srs.g2, as in Decomp::generate; `issued` holds the one proof  *)
(* generated in the run together with its statement.  The DLEQ scheme runs *)
(* over the pair of generators (srs.g2, srs.g1).                           *)
(***************************************************************************)
InitDLK ==
    /\ config \in {[srs |-> [g1 |-> h, g2 |-> g, g2_prime |-> 4],
                    degree |-> 1, num_participants |-> 2] :
                      g \in Scalars, h \in Scalars}
    /\ participants = << >>
    /\ dealers = << >>
    /\ issued = {}
    /\ aggs = {}
    /\ tx = << >>
    /\ transcript = << >>
    /\ last = NoCall
    /\ calls = 0
    /\ delivered = {}

Recorded(op, arg, ret) ==
    last' = [op |-> op, arg |-> arg, ret |-> ret, result |-> ResultName(ret)]

\* dlk.from_witness(&w) and dlk.prove(rng, &w), rng yielding the nonce r.
DLKProve(w, r) ==
    LET item == [kind |-> "dlk",
                 stmnt |-> GMul(config.srs.g2, w),
                 proof |-> DLKProof_prove(config.srs.g2, r, w)]
    IN /\ issued = {}
       /\ issued' = {item}
       /\ Recorded("DLKProof::prove", [w |-> w, r |-> r], Ok(item.proof))
       /\ UNCHANGED <<transcript, config, participants, dealers, aggs, tx, calls, delivered>>

\* dlk.verify(&stmnt, &proof)
DLKVerify(item) ==
    /\ item.kind = "dlk"
    /\ Recorded("DLKProof::verify", item,
                DLKProof_verify(config.srs.g2, item.stmnt, item.proof))
    /\ UNCHANGED <<transcript, config, participants, dealers, issued, aggs, tx, calls, delivered>>

\* dlk.verify(&stmnt, &malformed_proof): one of the commitment (1), the
\* challenge (2) and the response (3) replaced by another value
\* (nizk/dlk/mod.rs:204-276).
DLKVerifyMalformed(item, field, v) ==
    /\ item.kind = "dlk"
    /\ v # item.proof[field]
    /\ LET malformed == [item EXCEPT !.proof[field] = v]
       IN Recorded("DLKProof::verify", malformed,
                   DLKProof_verify(config.srs.g2, malformed.stmnt, malformed.proof))
    /\ UNCHANGED <<transcript, config, participants, dealers, issued, aggs, tx, calls, delivered>>

\* dlk.verify(&pair2.1, &proof): the proof against another statement
\* (nizk/dlk/mod.rs:174-187).
DLKVerifyWrongStatement(item, y) ==
    /\ item.kind = "dlk"
    /\ y # item.stmnt
    /\ Recorded("DLKProof::verify", [item EXCEPT !.stmnt = y],
                DLKProof_verify(config.srs.g2, y, item.proof))
    /\ UNCHANGED <<transcript, config, participants, dealers, issued, aggs, tx, calls, delivered>>

\* dleq.from_witness(&w) and dleq.prove(rng, &w), rng yielding the nonce r.
DLEQProve(w, r) ==
    LET item == [kind |-> "dleq",
                 stmnt |-> <<GMul(config.srs.g2, w), GMul(config.srs.g1, w)>>,
                 proof |-> DLEQProof_prove(config.srs.g2, config.srs.g1, r, w)]
    IN /\ issued = {}
       /\ issued' = {item}
       /\ Recorded("DLEQProof::prove", [w |-> w, r |-> r], Ok(item.proof))
       /\ UNCHANGED <<transcript, config, participants, dealers, aggs, tx, calls, delivered>>

\* dleq.verify(&(Y1, y2), &proof): the proof against its own first
\* component and any second component, its own included.
DLEQVerify(item, y2) ==
    /\ item.kind = "dleq"
    /\ Recorded("DLEQProof::verify", [item EXCEPT !.stmnt[2] = y2],
                DLEQProof_verify(config.srs.g2, config.srs.g1,
                                 <<item.stmnt[1], y2>>, item.proof))
    /\ UNCHANGED <<transcript, config, participants, dealers, issued, aggs, tx, calls, delivered>>

\* Decomp::generate(rng, &config, &p_0), rng yielding the nonce r.
DecompGenerate(p_0, r) ==
    LET item == [kind |-> "decomp", dproof |-> Decomp_generate(r, config, p_0)]
    IN /\ issued = {}
       /\ issued' = {item}
       /\ Recorded("Decomp::generate", [w |-> p_0, r |-> r], Ok(item.dproof))
       /\ UNCHANGED <<transcript, config, participants, dealers, aggs, tx, calls, delivered>>

\* dproof.verify(&config)
DecompVerify(item) ==
    /\ item.kind = "decomp"
    /\ Recorded("DecompProof::verify", item, DecompProof_verify(item.dproof, config))
    /\ UNCHANGED <<transcript, config, participants, dealers, issued, aggs, tx, calls, delivered>>

\* dproof_bad.verify(&conf): the decomposition proof with its challenge
\* (2) or its response (3) replaced (decomp.rs:168-175 replaces proof.1).
DecompVerifyMalformed(item, field, v) ==
    /\ item.kind = "decomp"
    /\ v # item.dproof.proof[field]
    /\ LET bad == [item EXCEPT !.dproof.proof[field] = v]
       IN Recorded("DecompProof::verify", bad, DecompProof_verify(bad.dproof, config))
    /\ UNCHANGED <<transcript, config, participants, dealers, issued, aggs, tx, calls, delivered>>

NextDLK ==
    \/ \E w \in Scalars, r \in Scalars : DLKProve(w, r)
    \/ \E item \in issued : DLKVerify(item)
    \/ \E p_0 \in Scalars, r \in Scalars : DecompGenerate(p_0, r)
    \/ \E item \in issued : DecompVerify(item)
    \/ \E item \in issued, field \in 1 .. 3, v \in Scalars :
          DLKVerifyMalformed(item, field, v)
    \/ \E item \in issued, y \in Scalars : DLKVerifyWrongStatement(item, y)
    \/ \E w \in Scalars, r \in Scalars : DLEQProve(w, r)
    \/ \E item \in issued, y2 \in Scalars : DLEQVerify(item, y2)
    \/ \E item \in issued, field \in 2 .. 3, v \in Scalars :
          DecompVerifyMalformed(item, field, v)

SpecDLK == InitDLK /\ [][NextDLK]_vars

\* C20: for every generator g, witness w and nonce r, the proof (R, c, z)
\* of DLKProof::prove(w) satisfies g * z + Y * c = R for Y = g * w and is
\* accepted by DLKProof::verify for Y; and the proof of Decomp::generate(
\* config, p_0) is accepted by DecompProof::verify(config).
C20_DLKComplete ==
    /\ \A item \in issued :
          item.kind = "dlk" =>
             GAdd(GMul(config.srs.g2, item.proof[3]),
                  GMul(item.stmnt, item.proof[2])) = item.proof[1]
    /\ (last.op = "DLKProof::verify" /\ last.arg \in issued) =>
          last.ret = Ok("unit")
    /\ (last.op = "DecompProof::verify" /\ last.arg \in issued) =>
          last.ret = Ok("unit")

\* A decomposition proof for a free term other than zero, made with a nonce
\* other than zero over a generator other than the identity, was verified.
C20_Witness ==
    /\ last.op = "DecompProof::verify"
    /\ last.arg \in issued
    /\ config.srs.g2 # GZero
    /\ last.arg.dproof.gs # GZero
    /\ last.arg.dproof.proof[1] # GZero
    /\ last.arg.dproof.proof[3] # 0
    /\ last.result = "Ok"

\* The parts of a verified (statement, proof) in which it differs from the
\* proof generated in the run: 0 for the statement, 1..3 for R, c, z.
AlteredParts(arg) ==
    LET item == CHOOSE x \in issued : TRUE
    IN {k \in 1 .. 3 : arg.proof[k] # item.proof[k]}
          \cup (IF arg.stmnt # item.stmnt THEN {0} ELSE {})

C22_DLEQCompleteAndBound ==
    last.op = "DLEQProof::verify" =>
       /\ last.arg \in issued => last.ret = Ok("unit")
       /\ (last.arg \notin issued /\ config.srs.g1 # GZero) =>
             last.ret = Err("DLEQVerify")

\* A proof was rejected for a statement with another second component that
\* hashes to the challenge of the proof, so that the second equation decided.
C22_Witness ==
    /\ last.op = "DLEQProof::verify"
    /\ last.arg \notin issued
    /\ config.srs.g1 # GZero
    /\ config.srs.g2 # GZero
    /\ hash_to_field("DLEQNIZK",
                     <<config.srs.g2, last.arg.stmnt[1], config.srs.g1,
                       last.arg.stmnt[2], last.arg.proof[1][1],
                       last.arg.proof[1][2]>>) = last.arg.proof[2]
    /\ last.result = "DLEQVerify"

(***************************************************************************)
(* share_verify on altered shares.  One dealer issues one share; a peer    *)
(* alters some of its parts, each part at most once (`delivered` holds the *)
(* parts altered so far); an aggregator then verifies what it has got.     *)
(***************************************************************************)
VerifyShapes == {<<1, 2>>, <<1, 3>>, <<1, 4>>}
AlteredKinds == {"c", "z", "gs", "id", "comms", "encs", "sig", "c_i"}
MaxAltered == 3                \* parts of the share altered in one run

InitVerify == InitWith(VerifyShapes)

\* The share sh with one of its parts replaced: the challenge of the proof
\* (as in test_invalid_decomp_proof), its response, its statement, the
\* claimed issuer, the first commitment, the length of the encryptions, the
\* response of the signature on c_i, c_i itself.
Altered(sh, kind, v) ==
    CASE kind = "c"  -> [sh EXCEPT !.signed_proof.decomp_proof.proof[2] = v]
      [] kind = "z"  -> [sh EXCEPT !.signed_proof.decomp_proof.proof[3] = v]
      [] kind = "gs" -> [sh EXCEPT !.signed_proof.decomp_proof.gs = v]
      [] kind = "id" -> [sh EXCEPT !.participant_id = v]
      [] kind = "comms" -> [sh EXCEPT !.pvss_core.comms[1] = GAdd(@, v)]
      [] kind = "encs" ->
            [sh EXCEPT !.pvss_core.encs = SubSeq(@, 1, Len(@) - (v % 2))]
      [] kind = "sig" -> [sh EXCEPT !.signature_on_c_i[2] = FAdd(@, v)]
      [] kind = "c_i" -> [sh EXCEPT !.c_i = v]

Alter(sh, kind, v) ==
    /\ Idle
    /\ kind \notin delivered
    /\ Cardinality(delivered) < MaxAltered
    /\ kind = "id" => v <= config.num_participants
    /\ kind \in {"encs", "sig"} => v = 1
    /\ Altered(sh, kind, v) # sh
    /\ issued' = {Altered(sh, kind, v)}
    /\ delivered' = delivered \cup {kind}
    /\ UNCHANGED <<transcript, config, participants, dealers, aggs, tx, last, calls>>

\* aggregator.share_verify(rng, &share)
CallShareVerify(sh, rng) ==
    LET ret == share_verify(config, participants, rng.poly, sh)
    IN /\ Idle
       /\ last' = [op |-> "share_verify", arg |-> sh, rng |-> rng.poly,
                   ret |-> ret, result |-> ResultName(ret)]
       /\ UNCHANGED <<transcript, config, participants, dealers, issued, aggs, tx, calls,
                      delivered>>

NextVerify ==
    \/ \E i \in NodeIds, poly \in Polys(config.degree) :
          \E r \in Nonces(poly) : Deal(i, poly, r, 1)
    \/ \E sh \in issued, kind \in AlteredKinds, v \in Scalars : Alter(sh, kind, v)
    \/ \E sh \in issued, rng \in Rngs : CallShareVerify(sh, rng)

SpecVerify == InitVerify /\ [][NextVerify]_vars

\* C23: for a share that is otherwise valid (known issuer, correct lengths,
\* degree-t commitments, gs equal to the interpolation of comms, c_i and
\* its signature as the issuer sent them), replacing the NIZK response by
\* any different field element makes share_verify return
\* NIZKProofDoesNotVerifyError (or InvalidSignedProofError).  Stated for
\* n >= t + 2, where ensure_degree returns.
C23_MalformedProofRejected ==
    (/\ last.op = "share_verify"
     /\ delivered = {"z"}
     /\ config.degree + 2 <= config.num_participants) =>
       last.result \in {"NIZKProofDoesNotVerifyError", "InvalidSignedProofError"}

\* C24: share_verify returns InvalidParticipantId(i) for every share whose
\* participant_id i is not a key of the aggregator's participants map,
\* whatever the rest of the share contains: the lookup is the first check.
C24_UnknownIssuerFirst ==
    (last.op = "share_verify"
       /\ last.arg.participant_id \notin DOMAIN participants) =>
       last.ret = ErrWith("InvalidParticipantId", <<last.arg.participant_id>>)

\* A share of an unknown issuer that the checks on the share itself would
\* not have let through either was answered with InvalidParticipantId.
C24_Witness ==
    /\ last.op = "share_verify"
    /\ last.arg.participant_id \notin DOMAIN participants
    /\ {"id", "gs"} \subseteq delivered
    /\ ~IsOk(pvss_share_verify(config, last.rng, last.arg))
    /\ last.result = "InvalidParticipantId"

\* The vectors of the verified share have length n and pass the dual-code
\* check under the verifier's randomness, and gs is not the interpolation
\* of comms.
GsOffInterpolation ==
    LET core == last.arg.pvss_core
        point == lagrange_interpolation_simple(core.comms, config.degree)
    IN /\ Len(core.comms) = config.num_participants
       /\ Len(core.encs) = config.num_participants
       /\ IsOk(ensure_degree(last.rng, core.comms, config.degree))
       /\ IsOk(point)
       /\ point.val # last.arg.signed_proof.decomp_proof.gs

\* gs is the interpolation of comms.
GsOnInterpolation ==
    LET point == lagrange_interpolation_simple(last.arg.pvss_core.comms,
                                               config.degree)
    IN IsOk(point) /\ point.val = last.arg.signed_proof.decomp_proof.gs

\* C25 as stated: share_verify rejects with GSCheckError every share whose
\* vectors have length n and pass the dual-code degree check but whose gs
\* differs from lagrange_interpolation_simple(comms, t), and a share is
\* never accepted unless gs equals that interpolation.
C25_GsCheckedAsStated ==
    last.op = "share_verify" =>
       /\ GsOffInterpolation => last.result = "GSCheckError"
       /\ last.result = "Ok" => GsOnInterpolation

\* C25 amended: share_verify rejects with GSCheckError every share of a
\* known issuer whose vectors have length n and pass the dual-code degree
\* check but whose gs differs from lagrange_interpolation_simple(comms, t),
\* and a share is never accepted unless gs equals that interpolation.
C25_GsCheckedForKnownIssuer ==
    last.op = "share_verify" =>
       /\ (GsOffInterpolation /\ last.arg.participant_id \in DOMAIN participants)
             => last.result = "GSCheckError"
       /\ last.result = "Ok" => GsOnInterpolation

\* A share of a known issuer with another gs, and commitments still of
\* degree t, was rejected with GSCheckError.
C25_Witness ==
    /\ last.op = "share_verify"
    /\ GsOffInterpolation
    /\ last.arg.participant_id \in DOMAIN participants
    /\ "gs" \in delivered
    /\ last.result = "GSCheckError"

\* C26: the DLK Fiat-Shamir challenge is the hash, under persona DLKNIZK,
\* of the generator g, the statement Y and the nonce commitment R: the
\* bytes hashed by prove and verify include Y.
C26_ChallengeHashesStatement ==
    last.op \in {"DLKProof::prove", "DLKProof::verify"} =>
       \A item \in issued :
          LET g == config.srs.g2
              Y == item.stmnt
              R == item.proof[1]
          IN /\ ChallengeBytes(g, R) = <<g, Y, R>>
             /\ item.proof[2] = hash_to_field("DLKNIZK", <<g, Y, R>>)

\* C27: aggregate loses no contribution: whenever the aggregation of A and
\* B under the same (t, n) succeeds, the ids of the result's contributions
\* map are exactly the ids of A.contributions and of B.contributions, for
\* every id carried by the inputs, ids >= num_participants included.
C27_NoContributionLost ==
    (last.op \in {"aggregate", "aggregate_pvss_share"} /\ IsOk(last.ret)) =>
       LET B == IF last.op = "aggregate" THEN last.arg
                ELSE AsAggregate(last.pre, last.arg)
       IN Ids(last.ret.val) = Ids(last.pre) \cup Ids(B)

\* C28: ensure_degree is total: for every length of the commitment vector
\* and every degree t it returns Ok or an error value and never aborts, in
\* particular for the lengths t and t + 1.
C28_EnsureDegreeTotal ==
    last.op \in {"ensure_degree", "ensure_degree on a prefix"} =>
       last.ret.tag \in {"Ok", "Err"}

\* C29: the general Lagrange variants (G1, G2, GT) never abort: for every
\* input with at least t + 1 evaluations and equally many points, inputs in
\* which two of the first t + 1 points coincide included, they return a
\* Result.
C29_LagrangeNeverAborts ==
    (last.op \in GeneralVariants \cup {"interpolation with a repeated origin"}
       /\ Len(last.arg.sel) >= config.degree + 1
       /\ Len(last.arg.points) = Len(last.arg.sel)) =>
       last.ret.tag \in {"Ok", "Err"}

(***************************************************************************)
(* Node::share called once by one node, with what it returns and what it   *)
(* writes to standard output.                                              *)
(***************************************************************************)
InitShare == InitWith(Shapes)

\* node.share(rng), rng yielding the polynomial and the proof nonce.
CallShare(i, poly, r) ==
    LET ret == share(config, participants, dealers[i], poly, r)
    IN /\ Idle
       /\ last' = [op |-> "share", node |-> i, arg |-> [poly |-> poly, r |-> r],
                   ret |-> ret,
                   stdout |-> share_stdout(config, participants, dealers[i],
                                           poly, r),
                   result |-> ResultName(ret)]
       /\ issued' = IF IsOk(ret) THEN issued \cup {ret.val} ELSE issued
       /\ UNCHANGED <<transcript, config, participants, dealers, aggs, tx, calls, delivered>>

NextShare ==
    \E i \in NodeIds, poly \in [1 .. (config.degree + 1) -> Scalars], r \in Scalars :
       CallShare(i, poly, r)

SpecShare == InitShare /\ [][NextShare]_vars

\* The dealer of node i with another EdDSA signing key.
WithSigningKey(i, key) == [dealers[i] EXCEPT !.private_key_ed = key]

\* The returned share without its signature_on_decomp field.
WithoutSignature(ret) ==
    IF IsOk(ret)
    THEN [participant_id |-> ret.val.participant_id,
          pvss_core      |-> ret.val.pvss_core,
          decomp_proof   |-> ret.val.signed_proof.decomp_proof]
    ELSE ret

\* C30: Node.share discloses nothing about the dealer's EdDSA signing key
\* beyond the signature: for two dealers that differ only in their signing
\* key, the returned share without signature_on_decomp and what is written
\* to standard output are identical, and share writes nothing at all.
C30_ShareKeepsSigningKey ==
    last.op = "share" =>
       /\ last.stdout = << >>
       /\ \A key \in 1 .. (config.num_participants + 1) :
             LET d == WithSigningKey(last.node, key)
             IN /\ WithoutSignature(share(config, participants, d,
                                          last.arg.poly, last.arg.r))
                      = WithoutSignature(last.ret)
                /\ share_stdout(config, participants, d,
                                last.arg.poly, last.arg.r) = last.stdout

====
